------------------------------ MODULE CstrBuf ------------------------------
(***************************************************************************)
(* The string buffer of src/src/cstrbuf.h: a block of maxsz bytes, of      *)
(* which the first len hold the text.  Other code takes the text by its    *)
(* length or, as misc.h does, as the C string that starts the block.  A    *)
(* program holds one buffer, or NULL, and replaces it by what each call    *)
(* returns.  mem_alloc_unset and mem_realloc end the program when memory   *)
(* runs out, so that they do not fail here.                                *)
(***************************************************************************)
EXTENDS Integers, Sequences, SequencesExt

CONSTANTS
  Chars,       \* the characters of texts
  Separator,   \* one of them, the separator of paths
  NUL,         \* the byte that ends a C string
  Unset,       \* a byte that nobody has written
  NoBuffer,    \* NULL
  BlockSize,   \* cstr_allocate_blocksize
  MaxPiece,    \* no text that a call adds is longer
  MaxLen       \* no text is longer

\* A block of n bytes, and what its header says of the text in it.
Block(n) ==
  [maxsz : {n}, len : 0..(n - 1), str : [0..(n - 1) -> Chars \cup {NUL, Unset}]]

\* The largest block that texts of MaxLen need.
MaxBlock == MaxLen + 1 + BlockSize

ASSUME CstrBufAssumption ==
  /\ Separator \in Chars /\ NUL \notin Chars /\ Unset \notin Chars /\ NUL # Unset
  /\ BlockSize \in Nat \ {0} /\ MaxLen \in Nat /\ MaxPiece \in 0..MaxLen
  /\ \A n \in 1..MaxBlock : NoBuffer \notin Block(n)

VARIABLES
  csb,      \* the buffer: maxsz, len and the bytes str, counted from 0
  text,     \* history: the text that it was made to hold
  pushed    \* history: cstrbufPushBack ended it behind bytes of a longer text

csbVars == <<csb, text, pushed>>

cstrbuf_alignsize(len) == ((len + BlockSize) \div BlockSize) * BlockSize

\* The bytes of s go to the places from at on, the block being so large or not.
memcpy(str, at, s) ==
  LET to == at..(at + Len(s) - 1)
  IN  [i \in (DOMAIN str) \cup to |-> IF i \in to THEN s[i - at + 1] ELSE str[i]]
\* The same for vsnprintf, which keeps to size bytes and ends them with NUL.
vsnprintf(str, at, size, s) ==
  LET n == IF Len(s) < size THEN Len(s) ELSE size - 1
  IN  memcpy(str, at, Append(SubSeq(s, 1, n), NUL))

Texts == UNION {[1..n -> Chars] : n \in 0..MaxPiece}

-----------------------------------------------------------------------------
\* The buffer that cstrbufNew makes: maxsz is what the caller asks for, or 0.
cstrbufNew(maxsz, s) ==
  LET size == IF maxsz = 0 THEN Len(s) + 1
              ELSE cstrbuf_alignsize(IF maxsz <= Len(s) THEN Len(s) + 1 ELSE maxsz)
  IN  [maxsz |-> size, len |-> Len(s),
       str |-> memcpy([i \in 0..(size - 1) |-> NUL], 0, s)]

\* Faulty, not used here: HasRoom, but the NUL at the end is not counted.
HasRoomForText(dst, n) == dst.len + n <= dst.maxsz

HasRoom(dst, n) == dst.len + n < dst.maxsz

\* cstrbufCat(dst, fmt, ...) where the format yields s.  The first vsnprintf
\* may write what fits; then the block grows and all of s is written again.
cstrbufCat(dst, s) ==
  IF dst = NoBuffer THEN
    LET new == cstrbufNew(Len(s) + 1, <<>>)
    IN  [new EXCEPT !.len = Len(s), !.str = vsnprintf(@, 0, new.maxsz, s)]
  ELSE
    LET tried == vsnprintf(dst.str, dst.len, dst.maxsz - dst.len, s)
        size == cstrbuf_alignsize(dst.len + Len(s) + 1)
        grown == [i \in 0..(size - 1) |-> IF i < dst.maxsz THEN tried[i] ELSE Unset]
    IN  IF HasRoom(dst, Len(s))
        THEN [dst EXCEPT !.len = @ + Len(s), !.str = memcpy(tried, dst.len + Len(s), <<NUL>>)]
        ELSE [maxsz |-> size, len |-> dst.len + Len(s),
              str |-> vsnprintf(grown, dst.len, size - dst.len, s)]

Content(b) ==
  IF b = NoBuffer THEN <<>> ELSE [i \in 1..b.len |-> b.str[i - 1]]

\* Each of the buffers in turn is appended to a new one; the first may be NULL.
cstrbufConcat(first, second) == cstrbufCat(cstrbufCat(NoBuffer, Content(first)), Content(second))

cstrbufTrunc(s, len) ==
  IF s.len > len THEN [s EXCEPT !.len = len, !.str = memcpy(@, len, <<NUL>>)] ELSE s

cstrbufDup(dst, source) ==
  IF dst # NoBuffer /\ dst.maxsz > Len(source)
  THEN [dst EXCEPT !.len = Len(source), !.str = memcpy(@, 0, Append(source, NUL))]
  ELSE cstrbufNew(0, source)

\* source with the length bytes from startindex on replaced by substr.
cstrbufSub(source, startindex, length, substr) ==
  LET end == SubSeq(source, startindex + length + 1, Len(source))
      n == Len(source) - length + Len(substr)
      new == cstrbufNew(n + 1, SubSeq(source, 1, startindex))
  IN  [new EXCEPT !.len = n, !.str = memcpy(@, startindex, substr \o end \o <<NUL>>)]

\* No NUL is written where there is room.
cstrbufPushBack(dst, ch) ==
  IF dst # NoBuffer /\ HasRoom(dst, 1)
  THEN [dst EXCEPT !.len = @ + 1, !.str = memcpy(@, dst.len, <<ch>>)]
  ELSE cstrbufCat(dst, <<ch>>)

\* What strlen, strnlen and strrchr make of the bytes: the C string in them.
CString(b) ==
  LET ends == {i \in DOMAIN b.str : b.str[i] = NUL}
      n == CHOOSE i \in ends : \A j \in ends : i <= j
  IN  [i \in 1..n |-> b.str[i - 1]]

\* get_proc_abspath: the file is cut off its path, where there is a separator.
get_proc_abspath(b) ==
  LET at == {i \in 1..Len(CString(b)) : CString(b)[i] = Separator}
      last == CHOOSE i \in at : \A j \in at : j <= i
      cut == [b EXCEPT !.str[last - 1] = NUL]
  IN  IF at = {} THEN b ELSE [cut EXCEPT !.len = Len(CString(cut))]

-----------------------------------------------------------------------------
CsbInit == csb = NoBuffer /\ text = <<>> /\ pushed = FALSE

Becomes(b, s) == csb' = b /\ text' = s
Ended == pushed' = FALSE

CsbNew ==
  /\ csb = NoBuffer
  /\ \E s \in Texts, maxsz \in 0..MaxLen : Becomes(cstrbufNew(maxsz, s), s)
  /\ Ended
CsbFree == csb # NoBuffer /\ Becomes(NoBuffer, <<>>) /\ Ended
CsbCat ==
  \E s \in Texts :
    /\ Len(text) + Len(s) <= MaxLen
    /\ Becomes(cstrbufCat(csb, s), text \o s) /\ Ended
CsbConcat ==
  \E s \in Texts :
    /\ Len(text) + Len(s) <= MaxLen
    /\ Becomes(cstrbufConcat(csb, cstrbufNew(0, s)), text \o s) /\ Ended
CsbTrunc ==
  \E len \in 0..MaxLen :
    /\ csb # NoBuffer
    /\ Becomes(cstrbufTrunc(csb, len), IF len < Len(text) THEN SubSeq(text, 1, len) ELSE text)
    /\ pushed' = (pushed /\ len >= Len(text))
CsbDup == \E s \in Texts : Becomes(cstrbufDup(csb, s), s) /\ Ended
\* The program replaces a part of the text that it has.
CsbSub ==
  \E startindex \in 0..Len(text) : \E length \in 0..(Len(text) - startindex), s \in Texts :
    /\ csb # NoBuffer /\ Len(text) - length + Len(s) <= MaxLen
    /\ Becomes(cstrbufSub(text, startindex, length, s),
               SubSeq(text, 1, startindex) \o s
                 \o SubSeq(text, startindex + length + 1, Len(text)))
    /\ Ended
CsbPushBack ==
  \E ch \in Chars :
    /\ Len(text) < MaxLen
    /\ Becomes(cstrbufPushBack(csb, ch), Append(text, ch))
    /\ pushed' = (csb # NoBuffer /\ HasRoom(csb, 1))
CsbAbspath ==
  /\ csb # NoBuffer /\ ~pushed
  /\ csb' = get_proc_abspath(csb)
  /\ text' = IF Contains(text, Separator)
             THEN SubSeq(text, 1, SelectLastInSeq(text, LAMBDA c : c = Separator) - 1) ELSE text
  /\ UNCHANGED pushed

CsbNext ==
  \/ CsbNew \/ CsbFree \/ CsbCat \/ CsbConcat \/ CsbTrunc \/ CsbDup \/ CsbSub
  \/ CsbPushBack \/ CsbAbspath

BufSpec == CsbInit /\ [][CsbNext]_csbVars

-----------------------------------------------------------------------------
\* After any calls the first len bytes are the text that they should have made,
\* len leaves room for a NUL, and the NUL is there, except where the last call
\* to make the text longer was a cstrbufPushBack with room: then bytes of an
\* older, longer text may follow.  No call writes outside of the block.
BufferHoldsText ==
  csb # NoBuffer =>
    /\ DOMAIN csb.str = 0..(csb.maxsz - 1)
    /\ csb.len < csb.maxsz
    /\ Content(csb) = text
    /\ ~pushed => CString(csb) = text
=============================================================================
