------------------------------ MODULE SharedLog ------------------------------
(***************************************************************************)
(* What an audit log kept by several readers promises: entries are only    *)
(* added, each once; a reader sees a prefix of the log; and an entry that  *)
(* was acknowledged is in the log, and in what its reader saw then.        *)
(* MerkleAuditLog implements it.                                           *)
(***************************************************************************)
EXTENDS Integers, Sequences

CONSTANTS Reader, Entry

VARIABLES
  log,    \* the entries, in order
  view,   \* what each reader sees of them
  acked   \* the entries whose writer was told they are in the log

logVars == <<log, view, acked>>

LogInit ==
  /\ log = << >>
  /\ view = [r \in Reader |-> << >>]
  /\ acked = {}

Logged(e) == \E n \in 1..Len(log) : log[n] = e

Add(e) ==
  /\ ~Logged(e)
  /\ log' = Append(log, e)
  /\ UNCHANGED <<view, acked>>

\* A reader looks at the log, or starts anew.
Look(r) ==
  /\ \E n \in 0..Len(log) : view' = [view EXCEPT ![r] = SubSeq(log, 1, n)]
  /\ UNCHANGED <<log, acked>>

Acknowledge(r, e) ==
  /\ \E n \in 1..Len(log) : log[n] = e /\ view' = [view EXCEPT ![r] = SubSeq(log, 1, n)]
  /\ acked' = acked \cup {e}
  /\ UNCHANGED log

LogNext ==
  \/ \E e \in Entry : Add(e)
  \/ \E r \in Reader : Look(r) \/ \E e \in Entry : Acknowledge(r, e)

LogSpec == LogInit /\ [][LogNext]_logVars

=============================================================================
