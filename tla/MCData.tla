------------------------------- MODULE MCData -------------------------------
(***************************************************************************)
(* The sequential parts, each by itself: the bytes of the ring, attribute  *)
(* objects and priorities, the string buffer, texts, and times.  `unit' is *)
(* the part that runs; the state of the others stands still.               *)
(*                                                                         *)
(* Slots of three bytes lie at 0, 3 and 6: an int up to 7 holds every      *)
(* offset.  A DWORD counts to 16, and times reach to 24 milliseconds.  The *)
(* days are those around the ends of months and years, leap years among    *)
(* them, and of 2000.                                                      *)
(***************************************************************************)
EXTENDS PoolLayout, Attrs, Text, Clock

MCQueueSizes == 1..3
MCTaskArgSizes == {0, 2}
MCArgSizes == {-1, 1, 2, 3}
MCAttrKinds == {"thread", "mutex", "cond", "rwlock", "barrier"}
MCPriorities == {-16, -7, 0, 15}
MCDays == 0..1 \cup 30..31 \cup 58..60 \cup 364..366 \cup 788..791 \cup 1095..1097
            \cup 1460..1462 \cup 11015..11017 \cup 11322..11323
\* In China the first eight hours of 1970 are 1969 elsewhere: Windows refuses them.
MCMktimeFails == {1970} \X {1} \X {1} \X (0..7) \X (0..59) \X (0..60)
MCSeconds == {0, 3599, 3600, 86399}

CONSTANTS t1, t2    \* the values of Tasks

VARIABLE unit

DataInit ==
  /\ unit \in {"ring", "attrs", "buffer", "text", "clock"}
  /\ Init /\ (unit # "ring" => queue_size = 1 /\ task_arg_size = 0)
  /\ AttrsInit /\ (unit # "attrs" => kind = "thread")
  /\ CsbInit /\ TextInit
  /\ ClockInit

DataNext ==
  /\ UNCHANGED unit
  /\ \/ unit = "ring" /\ Next /\ UNCHANGED <<attrsVars, csbVars, str, clockVars>>
     \/ unit = "attrs" /\ AttrsNext /\ UNCHANGED <<vars, csbVars, str, clockVars>>
     \/ unit = "buffer" /\ CsbNext /\ UNCHANGED <<vars, attrsVars, str, clockVars>>
     \/ unit = "text" /\ TextNext /\ UNCHANGED <<vars, attrsVars, csbVars, clockVars>>
     \/ unit = "clock" /\ ClockNext /\ UNCHANGED <<vars, attrsVars, csbVars, str>>

DataSpec == DataInit /\ [][DataNext]_<<unit, vars, attrsVars, csbVars, str, clockVars>>
=============================================================================
