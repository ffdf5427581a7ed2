--------------------------- MODULE MCRequestPipeline ---------------------------
(* A batch that is guarded, one of its envelopes alone, and a route without guard. *)
EXTENDS RequestPipeline, TLC

CONSTANTS batch, single, plain, e1, e2, q1, q2, p1

MCEnvelopesOf == [f \in Fingerprint |->
  CASE f = batch -> {e1, e2} [] f = single -> {e1} [] f = plain -> {}]

\* Requests are alike, and so are processes: of three requests two reach the same one,
\* and these are called q1 and q2, and it p1.  Liveness forbids SYMMETRY.
Named == \A q \in {q1, q2} : pc[q] = "new" \/ from[q].process = p1

MCSpec ==
  /\ Init /\ [][Next /\ Named']_vars
  /\ \A q \in Request : WF_vars(Serve(q) /\ UNCHANGED replayVars)
=============================================================================
