-------------------------------- MODULE Text --------------------------------
(***************************************************************************)
(* The algorithms on C strings of src/src/cstrbuf.h and the search for a   *)
(* configuration file of src/src/misc.h, over texts that a program reads   *)
(* one character at a time.  A text is the sequence of its characters.     *)
(***************************************************************************)
EXTENDS CstrBuf

CONSTANTS
  Blank,      \* the character that isspace knows
  Delim,      \* a character that separates parts of a text
  Dot,        \* '.'
  Alphabet,   \* the characters of the program's text
  MaxText     \* its longest length

ASSUME TextAssumption ==
  /\ {Blank, Delim, Dot} \subseteq Alphabet /\ NUL \notin Alphabet /\ MaxText \in Nat

VARIABLE str     \* the text

Drop(s, n) == SubSeq(s, n + 1, Len(s))

\* How many characters pass the test before the first that does not, and the
\* place of the last one that passes, or 0.
Run(s, Test(_)) ==
  CHOOSE n \in 0..Len(s) :
    (\A i \in 1..n : Test(s[i])) /\ (n < Len(s) => ~Test(s[n + 1]))
LastAt(s, Test(_)) == SelectLastInSeq(s, Test)

-----------------------------------------------------------------------------
cstr_Ltrim_chr(s, ch) == Drop(s, Run(s, LAMBDA c : c = ch))

\* A text of nothing but ch keeps one of them.
cstr_Rtrim_chr(s, ch) ==
  LET last == LastAt(s, LAMBDA c : c # ch)
  IN  IF s = <<>> THEN s ELSE SubSeq(s, 1, IF last = 0 THEN 1 ELSE last)

cstr_LRtrim_chr(s, ch) == cstr_Rtrim_chr(cstr_Ltrim_chr(s, ch), ch)

cstr_Ltrim_whitespace(s) == Drop(s, Run(s, LAMBDA c : c = Blank))
cstr_Rtrim_whitespace(s) == SubSeq(s, 1, LastAt(s, LAMBDA c : c # Blank))
cstr_LRtrim_whitespace(s) == cstr_Rtrim_whitespace(cstr_Ltrim_whitespace(s))

\* Faulty, not used here: cstr_shrink_whitespace, whose second loop ends too early.
ShrinkKeepsOne(s, start, end) ==
  LET first == start + Run(SubSeq(s, start + 1, end), LAMBDA c : c = Blank)
      last == first + LastAt(SubSeq(s, first + 1, end + 1), LAMBDA c : c # Blank) - 1
  IN  SubSeq(s, first + 1, IF last < first THEN first + 1 ELSE last + 1)

\* Of the places start to end of s, counted from 0, those left without blanks.
cstr_shrink_whitespace(s, start, end) ==
  LET first == start + Run(SubSeq(s, start + 1, end), LAMBDA c : c = Blank)
      last == first + LastAt(SubSeq(s, first + 1, end + 1), LAMBDA c : c # Blank) - 1
  IN  SubSeq(s, first + 1, last + 1)

\* Where the parts end that separators at the places at, counted from 1, make.
Ends(s, at) == Append(at, Len(s) + 1)

Places(s, chrs) == SetToSortSeq({i \in 1..Len(s) : s[i] \in chrs}, <)

\* The parts of s, the separators left out; with no room for them they are counted.
cstr_slpit_chr(s, delim, maxoutnum) ==
  LET ends == Ends(s, Places(s, {delim}))
      part(i) == SubSeq(s, IF i = 1 THEN 1 ELSE ends[i - 1] + 1, ends[i] - 1)
      n == IF maxoutnum < Len(ends) THEN maxoutnum ELSE Len(ends)
  IN  [i \in 1..n |-> cstr_LRtrim_chr(part(i), Blank)]
cstr_slpit_chr_count(s, delim) == 1 + Len(Places(s, {delim}))

\* A part starts at its separator, which stays in it; empty parts are left out.
cstr_split_multi_chrs(s, sepchrs, maxsubs) ==
  LET ends == Ends(s, SelectSeq(Places(s, sepchrs), LAMBDA i : i > 1))
      part(i) == cstr_shrink_whitespace(s, IF i = 1 THEN 0 ELSE ends[i - 1] - 1, ends[i] - 2)
      parts == SelectSeq([i \in 1..Len(ends) |-> part(i)], LAMBDA p : p # <<>>)
  IN  IF s = <<>> THEN <<>>
      ELSE SubSeq(parts, 1, IF maxsubs < Len(parts) THEN maxsubs ELSE Len(parts))

At(s, i, pattern) ==
  i + Len(pattern) - 1 <= Len(s) /\ SubSeq(s, i, i + Len(pattern) - 1) = pattern

\* Two passes: the first counts the places where the pattern, not an empty one,
\* is met from the left, the second fills a block of the length this gives.
cstr_replace_new(original, pattern, replacement) ==
  LET count[i \in 1..(Len(original) + Len(pattern))] ==
        IF i > Len(original) THEN 0
        ELSE IF At(original, i, pattern) THEN 1 + count[i + Len(pattern)] ELSE count[i + 1]
      copy[i \in 1..(Len(original) + Len(pattern))] ==
        IF i > Len(original) THEN <<>>
        ELSE IF At(original, i, pattern) THEN replacement \o copy[i + Len(pattern)]
        ELSE <<original[i]>> \o copy[i + 1]
      len == Len(original) + count[1] * (Len(replacement) - Len(pattern))
  IN  IF count[1] = 0 THEN [len |-> 0, result |-> <<>>]
      ELSE [len |-> len, result |-> copy[1]]

\* source is copied into the block behind dstoffset; what does not fit is cut,
\* with dots at the end of the block, whatever stood there.  The size is not 0.
cstr_safecopy(dstbuf, dstoffset, source) ==
  LET size == Cardinality(DOMAIN dstbuf)
      copied == memcpy(dstbuf, dstoffset, SubSeq(source, 1, size - dstoffset))
      dotted == IF size > 3 THEN memcpy(copied, size - 4, <<Dot, Dot, Dot>>) ELSE copied
  IN  IF dstoffset + Len(source) < size
      THEN [ok |-> TRUE, buf |-> memcpy(dstbuf, dstoffset, Append(source, NUL))]
      ELSE [ok |-> FALSE,
            buf |-> memcpy(IF dstoffset < size THEN dotted ELSE dstbuf, size - 1, <<NUL>>)]

\* TRUE with the same text, or with an end of count characters that are equal.
cstr_notequal_len(a, b) == a # b
cstr_startwith(s, start) == Len(start) <= Len(s) /\ SubSeq(s, 1, Len(start)) = start
cstr_endwith(s, end) ==
  Len(end) <= Len(s) /\ ~cstr_notequal_len(Drop(s, Len(s) - Len(end)), end)
cstr_containwith(s, sub) ==
  LET at == {i \in 0..(Len(s) - Len(sub)) : At(s, i + 1, sub)}
  IN  IF Len(sub) <= Len(s) /\ at # {} THEN CHOOSE i \in at : \A j \in at : i <= j ELSE -1

\* The places of s, from 0, that the functions which look for characters return.
cstr_Lfind_chr(s, c) == SelectInSeq(s, LAMBDA d : d = c) - 1
cstr_Rfind_chr(s, c) == LastAt(s, LAMBDA d : d = c) - 1
cstr_find_chrs(s, chrs) == SelectInSeq(s, LAMBDA d : d \in chrs) - 1

\* find_config_pathfile: a path that is given is completed; otherwise the file
\* is looked for beside the program, in conf there, and in conf beside its
\* directory; an environment variable or the system's directory comes last.
\* What is found is a path, NoBuffer stands for NULL.
Completed(path, name) ==
  IF cstr_endwith(path, <<Separator>> \o name) THEN path
  ELSE IF Last(path) = Separator THEN path \o name ELSE path \o <<Separator>> \o name

find_config_pathfile(cfgpath, name, dname, conf, exists, env, etc) ==
  LET pname == <<Separator>> \o name
      beside == dname \o pname
      below == dname \o <<Separator>> \o conf \o pname
      up == LastAt(dname, LAMBDA c : c = Separator)
      above == SubSeq(dname, 1, up - 1) \o <<Separator>> \o conf \o pname
  IN  IF cfgpath # NoBuffer THEN Completed(cfgpath, name)
      ELSE IF beside \in exists THEN beside
      ELSE IF below \in exists THEN below
      ELSE IF up > 0 /\ above \in exists THEN above
      ELSE IF env # NoBuffer THEN Completed(env, name)
      ELSE IF etc # NoBuffer THEN etc \o pname ELSE NoBuffer

-----------------------------------------------------------------------------
TextInit == str = NoBuffer
TextStarts == str = NoBuffer /\ str' = <<>>
TextGrows ==
  /\ str # NoBuffer /\ Len(str) < MaxText
  /\ \E c \in Alphabet : str' = Append(str, c)
TextNext == TextStarts \/ TextGrows

Solid(s) == SelectSeq(s, LAMBDA c : c # Blank)

\* Trimming takes the blanks off the ends and nothing else.
Trimmed(s, t) == Solid(t) = Solid(s) /\ (t # <<>> => t[1] # Blank /\ Last(t) # Blank)

\* Splitting loses nothing but separators and blanks at the ends of parts, in
\* whatever number of parts, and finds as many as it counted beforehand.
SplitsKeepText ==
  LET parts == cstr_slpit_chr(str, Delim, MaxText + 1)
      multi == cstr_split_multi_chrs(str, {Delim, Dot}, MaxText)
  IN  /\ Len(parts) = cstr_slpit_chr_count(str, Delim)
      /\ Solid(FlattenSeq(parts)) = SelectSeq(Solid(str), LAMBDA c : c # Delim)
      /\ Solid(FlattenSeq(multi)) = Solid(str)
      /\ \A i \in 1..Len(multi) : Trimmed(multi[i], multi[i]) /\ multi[i] # <<>>
      /\ \A i \in 1..Len(parts) : Trimmed(parts[i], parts[i])
      /\ Trimmed(str, cstr_LRtrim_whitespace(str))
      /\ LET first == cstr_Lfind_chr(str, Delim)  last == cstr_Rfind_chr(str, Delim) IN
         first >= 0 =>
           /\ parts[1] = cstr_LRtrim_whitespace(SubSeq(str, 1, first))
           /\ Last(parts) = cstr_LRtrim_whitespace(Drop(str, last + 1))
           /\ cstr_find_chrs(str, {Delim, Dot}) \in 0..first

\* Both passes of cstr_replace_new agree on the length; cstr_safecopy stays in
\* its block, ends it with NUL, and says whether all of the text is there.
CopiesStayInside ==
  /\ \A p \in {<<Delim>>, <<Delim, Delim>>}, r \in {<<>>, <<Dot>>, <<Dot, Delim, Dot>>} :
       LET new == cstr_replace_new(str, p, r) IN
       /\ new.len = Len(new.result)
       /\ cstr_containwith(str, p) < 0 => new.len = 0
  /\ \A size \in 1..(MaxText + 1), off \in 0..MaxText :
       LET copy == cstr_safecopy([i \in 0..(size - 1) |-> Unset], off, str) IN
       /\ DOMAIN copy.buf = 0..(size - 1)
       /\ \E i \in 0..(size - 1) : copy.buf[i] = NUL
       /\ copy.ok => \A i \in 1..Len(str) : copy.buf[off + i - 1] = str[i]

\* A path that find_config_pathfile returns ends with the name of the file; where no
\* path is given it is one that exists, if any of the three it looks for does.
ConfigHasItsName ==
  LET name == <<Delim>>
      paths == {<<Blank>>, <<Separator>> \o name, <<Blank, Separator>>, <<Blank>> \o name}
      maybe == {NoBuffer} \cup paths
      Path(s) == [i \in 1..Len(s) |-> IF s[i] = Dot THEN Separator ELSE s[i]]
      tails == {<<Separator>> \o name, <<Separator, Blank, Separator>> \o name}
      \* The directory above that of the program, unless that has no separator.
      above == {Path(SubSeq(str, 1, i - 1)) : i \in {i \in 1..Len(str) :
                  \A j \in i..Len(str) : (Path(str)[j] = Separator) = (j = i)}}
      files == {Path(str) \o tail : tail \in tails}
                 \cup {dir \o <<Separator, Blank, Separator>> \o name : dir \in above}
  IN  \A cfgpath, env, etc \in maybe, exists \in SUBSET files :
        LET found == find_config_pathfile(cfgpath, name, Path(str), <<Blank>>, exists, env, etc)
        IN  IF found = NoBuffer THEN cfgpath = env /\ env = etc /\ exists = {}
            ELSE /\ cstr_endwith(found, <<Separator>> \o name)
                 /\ cfgpath # NoBuffer => cstr_startwith(found, cfgpath)
                 /\ cfgpath = NoBuffer /\ exists # {} => found \in exists

\* Strings and paths are taken apart and put together without a loss, and within
\* their memory, for every text.
TextKept == str # NoBuffer => SplitsKeepText /\ CopiesStayInside /\ ConfigHasItsName
=============================================================================
