---------------------------- MODULE ExportPromise ----------------------------
(***************************************************************************)
(* What an export promises to those who watch it: the files are dealt with *)
(* one after another, each is exported or refused and never both, the      *)
(* export ends once, and it is an error only if it delivered nothing.      *)
(***************************************************************************)
EXTENDS Integers

CONSTANT MaxFiles \* bound: files of an export

VARIABLES
    decided, \* what became of each file
    ending   \* "running", "completed" or "error"

vars == <<decided, ending>>

With(d) == {i \in DOMAIN decided : decided[i] = d}

TypeOK ==
    /\ \E n \in 0 .. MaxFiles : decided \in [1 .. n -> {"open", "exported", "refused"}]
    /\ ending \in {"running", "completed", "error"}

Init ==
    /\ \E n \in 0 .. MaxFiles : decided = [i \in 1 .. n |-> "open"]
    /\ ending = "running"

Decide(i) ==
    /\ ending = "running" /\ decided[i] = "open"
    /\ \A j \in 1 .. i - 1 : decided[j] # "open"
    /\ \E d \in {"exported", "refused"} : decided' = [decided EXCEPT ![i] = d]
    /\ UNCHANGED ending

\* Every file has been dealt with.
Finish ==
    /\ ending = "running" /\ With("open") = {}
    /\ ending' = IF With("exported") = {} /\ With("refused") # {} THEN "error" ELSE "completed"
    /\ UNCHANGED decided

\* The destination could not be prepared.
Abort ==
    /\ ending = "running" /\ With("open") = DOMAIN decided
    /\ ending' = "error"
    /\ UNCHANGED decided

Next == Finish \/ Abort \/ \E i \in DOMAIN decided : Decide(i)

Spec == Init /\ [][Next]_vars
=============================================================================
