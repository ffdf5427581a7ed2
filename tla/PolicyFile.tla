------------------------------ MODULE PolicyFile ------------------------------
(***************************************************************************)
(* FilePolicyStore of policy/store.ts: policies in memory, and the file    *)
(* each save and delete rewrites through a temporary one.  A step is what  *)
(* runs between two awaits.                                                *)
(***************************************************************************)
EXTENDS FiniteSets

CONSTANTS
  Wallet,
  Stored,     \* versions of a policy
  NotStored,  \* no policy
  Persist     \* calls of persist() that overlap

ASSUME StoredAssumption == NotStored \notin Stored

VARIABLES
  policies,   \* the map in memory
  file,       \* what a restart loads
  persisting, \* the calls of persist() that have not ended
  snapshot,   \* per call: the policies it writes to its temporary file
  known,      \* history, per call: what each wallet's policy has been since it began
  admissible  \* history: what the file may hold for each wallet

fileVars == <<policies, file, persisting, snapshot, known, admissible>>

Contents == [Wallet -> Stored \cup {NotStored}]
Nothing == [w \in Wallet |-> NotStored]
Histories == [Wallet -> SUBSET (Stored \cup {NotStored})]
Only(contents) == [w \in Wallet |-> {contents[w]}]
None == [w \in Wallet |-> {}]

FileTypeOK ==
  /\ policies \in Contents /\ file \in Contents
  /\ persisting \in [Persist -> {"no", "mkdir", "writing"}]
  /\ snapshot \in [Persist -> Contents]
  /\ known \in [Persist -> Histories] /\ admissible \in Histories

FileInit ==
  /\ policies = Nothing /\ file = Nothing
  /\ persisting = [s \in Persist |-> "no"]
  /\ snapshot = [s \in Persist |-> Nothing]
  /\ known = [s \in Persist |-> None] /\ admissible = Only(Nothing)

Pending == {s \in Persist : persisting[s] # "no"}

Writing == {s \in Persist : persisting[s] = "writing"}

\* A wallet's policy changes, and the call that writes it begins.
Change(s, w, p) ==
  /\ persisting[s] = "no"
  /\ policies' = [policies EXCEPT ![w] = p]
  /\ persisting' = [persisting EXCEPT ![s] = "mkdir"]
  /\ known' = [t \in Persist |->
                 IF t = s THEN Only(policies')
                 ELSE IF t \in Pending THEN [known[t] EXCEPT ![w] = @ \cup {p}]
                 ELSE known[t]]
  /\ admissible' = [admissible EXCEPT ![w] = @ \cup {p}]
  /\ UNCHANGED <<file, snapshot>>

SavePolicy(s, w, p) == Change(s, w, p)

\* Without the persist() at its end.
DeleteUnsaved(s, w) ==
  /\ policies' = [policies EXCEPT ![w] = NotStored]
  /\ UNCHANGED <<file, persisting, snapshot, known, admissible>>

DeletePolicy(s, w) == Change(s, w, NotStored)

Snapshot(s) ==
  /\ persisting[s] = "mkdir"
  /\ persisting' = [persisting EXCEPT ![s] = "writing"]
  /\ snapshot' = [snapshot EXCEPT ![s] = policies]
  /\ UNCHANGED <<policies, file, known, admissible>>

End(s) ==
  /\ persisting' = [persisting EXCEPT ![s] = "no"]
  /\ snapshot' = [snapshot EXCEPT ![s] = Nothing]
  /\ known' = [known EXCEPT ![s] = None]
  /\ UNCHANGED policies

\* When nobody else has a snapshot left to write, what the file held before is
\* gone for good.
Rename(s) ==
  /\ s \in Writing
  /\ file' = snapshot[s]
  /\ admissible' = IF Writing = {s} THEN known[s] ELSE admissible
  /\ End(s)

\* The save rejects; the memory keeps its policy.
PersistThrows(s) ==
  /\ s \in Pending
  /\ End(s)
  /\ UNCHANGED <<file, admissible>>

\* A restart: temporary files are not read.  A file that cannot be read or parsed
\* is left as it is, and the memory begins empty.
LoadFromFile ==
  /\ policies' \in {file, Nothing}
  /\ persisting' = [s \in Persist |-> "no"]
  /\ snapshot' = [s \in Persist |-> Nothing]
  /\ known' = [s \in Persist |-> None]
  /\ admissible' = [w \in Wallet |-> {file[w], policies'[w]}]
  /\ UNCHANGED file

FileNext ==
  \/ \E s \in Persist :
       \/ \E w \in Wallet : (\E p \in Stored : SavePolicy(s, w, p)) \/ DeletePolicy(s, w)
       \/ Snapshot(s) \/ Rename(s) \/ PersistThrows(s)
  \/ LoadFromFile

FileSpec == FileInit /\ [][FileNext]_fileVars

\* Whatever overlaps, fails or crashes: once a save has replaced the file while no
\* other held a snapshot, a restart finds for each wallet the policy it had when
\* that save began or one that was put in the store since, never an older one.
FileNotBehind == \A w \in Wallet : file[w] \in admissible[w]

=============================================================================
