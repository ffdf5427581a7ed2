----------------------------- MODULE ApprovalHooks -----------------------------
(***************************************************************************)
(* useMultiSigApproval and useProxyUpgrade (use-multisig-approval.ts), one *)
(* of them in a mounted component: what it shows, the timers that poll and *)
(* the calls in flight.  A poll that is answered sets a timer beside any   *)
(* other, so that answers of a session or a proposal that was left go on   *)
(* arriving.  The server is external.                                      *)
(***************************************************************************)
EXTENDS Integers

CONSTANTS
  Item,      \* sessions, or proposals, the server may open
  Fetch,     \* calls to the server in flight at a time
  Timeout,   \* handles of setTimeout()
  NoItem     \* null

ASSUME ApprovalAssumption == NoItem \notin Item \cup Timeout

VARIABLES
  upgrade,   \* it is useProxyUpgrade
  fetches,   \* per call: what it asks, or the answer on its way
  tickers,   \* per handle: the item that its timer will poll
  tickRef,   \* pollTimerRef: keeps the handle of a timer that fired
  shown,     \* session, or proposal
  approval,  \* status
  merged,    \* the session that mergedXdr is of
  captured,  \* calls and proposals whose pollProposal() closed over status "approved"
  attached,  \* mountedRef
  remote     \* external: what became of every item

approvalVars ==
  <<upgrade, fetches, tickers, tickRef, shown, approval, merged, captured, attached, remote>>

NotFetching == [kind |-> "none"]
Asks == {"create", "poll", "merge", "approve", "execute"}
Decided == {"approved", "rejected", "expired"}
Decision == Decided \cup {"none", "open"}

\* The call that a status says is under way.
WaitsFor ==
  [creating |-> "create", proposing |-> "create", merging |-> "merge",
   approving |-> "approve", executing |-> "execute"]

ApprovalTypeOK ==
  /\ upgrade \in BOOLEAN /\ attached \in BOOLEAN
  /\ fetches \in [Fetch ->
       {NotFetching} \cup [kind : Asks, id : Item \cup {NoItem}]
       \cup [kind : {"answer"}, to : Asks, id : Item, decision : Decision]]
  /\ tickers \in [Timeout -> Item \cup {NoItem}]
  /\ tickRef \in Timeout \cup {NoItem}
  /\ shown \in Item \cup {NoItem} /\ merged \in Item \cup {NoItem}
  /\ approval \in DOMAIN WaitsFor \cup Decided
       \cup {"idle", "pending", "merged", "proposed", "executed", "cancelled", "error"}
  /\ remote \in [Item -> Decision] /\ captured \subseteq Fetch \cup Item

ApprovalInit ==
  /\ upgrade \in BOOLEAN
  /\ fetches = [x \in Fetch |-> NotFetching]
  /\ tickers = [h \in Timeout |-> NoItem]
  /\ tickRef = NoItem
  /\ shown = NoItem /\ merged = NoItem
  /\ approval = "idle"
  /\ attached = TRUE /\ captured = {}
  /\ remote = [i \in Item |-> "none"]

\* A call begins in a slot that is free, or that its own answer frees.
Send(x, kind, i) == fetches' = [fetches EXCEPT ![x] = [kind |-> kind, id |-> i]]
Receive(x) == fetches' = [fetches EXCEPT ![x] = NotFetching]

\* What a call asks, or what its answer was asked.
AskedBy(x) == IF fetches[x].kind = "answer" THEN fetches[x].to ELSE fetches[x].kind

Show(i, status) == shown' = i /\ approval' = status

\* The timers that stopPolling() leaves: only the one whose handle is kept is cleared.
TickersLeft == [h \in Timeout |-> IF h = tickRef THEN NoItem ELSE tickers[h]]

StopTicking == tickers' = TickersLeft /\ tickRef' = NoItem

\* Mutant of TickLater: the timer that is kept is cleared first.
TickLaterAlone(i) ==
  /\ tickRef' \in Timeout
  /\ TickersLeft[tickRef'] = NoItem
  /\ tickers' = [TickersLeft EXCEPT ![tickRef'] = i]

\* The timer that is kept, if it has not fired, stays beside the new one.
TickLater(i) ==
  /\ tickRef' \in Timeout
  /\ tickers[tickRef'] = NoItem
  /\ tickers' = [tickers EXCEPT ![tickRef'] = i]

---------------------------------------------------------------------------
(* What the user does. *)

CreateSession(x) ==
  /\ attached /\ ~upgrade /\ fetches[x] = NotFetching
  /\ Send(x, "create", NoItem)
  /\ StopTicking
  /\ Show(NoItem, "creating") /\ merged' = NoItem
  /\ UNCHANGED <<upgrade, attached, captured, remote>>

\* The user calls what the last render returned: its pollProposal() has the status
\* of that render for good.
ProposeUpgrade(x) ==
  /\ attached /\ upgrade /\ fetches[x] = NotFetching
  /\ Send(x, "create", NoItem)
  /\ StopTicking
  /\ Show(NoItem, "proposing")
  /\ captured' = IF approval = "approved" THEN captured \cup {x} ELSE captured \ {x}
  /\ UNCHANGED <<upgrade, merged, attached, remote>>

\* approveUpgrade() and executeUpgrade().
ActOnUpgrade(x, kind, status) ==
  /\ attached /\ upgrade /\ fetches[x] = NotFetching
  /\ shown # NoItem
  /\ Send(x, kind, shown)
  /\ approval' = status
  /\ UNCHANGED <<upgrade, tickers, tickRef, shown, merged, attached, captured, remote>>

CancelSession ==
  /\ attached /\ ~upgrade
  /\ StopTicking
  /\ Show(NoItem, "idle") /\ merged' = NoItem
  /\ UNCHANGED <<upgrade, fetches, attached, captured, remote>>

ResetSession ==
  /\ attached /\ ~upgrade
  /\ Show(NoItem, "idle") /\ merged' = NoItem
  /\ UNCHANGED <<upgrade, fetches, tickers, tickRef, attached, captured, remote>>

CancelUpgrade ==
  /\ attached /\ upgrade
  /\ StopTicking
  /\ Show(NoItem, "cancelled")
  /\ UNCHANGED <<upgrade, fetches, merged, attached, captured, remote>>

Detach ==
  /\ attached
  /\ attached' = FALSE
  /\ tickers' = TickersLeft
  /\ UNCHANGED <<upgrade, fetches, tickRef, shown, approval, merged, captured, remote>>

---------------------------------------------------------------------------
(* Timers, the server, and its answers. *)

\* tick(): a timer that outlives the component asks nothing.
Tick(h, x) ==
  /\ tickers[h] # NoItem
  /\ tickers' = [tickers EXCEPT ![h] = NoItem]
  /\ IF attached
     THEN fetches[x] = NotFetching /\ Send(x, "poll", tickers[h])
     ELSE UNCHANGED fetches
  /\ UNCHANGED <<upgrade, tickRef, shown, approval, merged, attached, captured, remote>>

ServerAnswers(x, i) ==
  /\ fetches[x].kind \in Asks
  /\ IF fetches[x].kind = "create" THEN remote[i] = "none" ELSE i = fetches[x].id
  /\ remote' = [remote EXCEPT ![i] = IF @ = "none" THEN "open" ELSE @]
  /\ fetches' = [fetches EXCEPT ![x] =
       [kind |-> "answer", to |-> fetches[x].kind, id |-> i, decision |-> remote'[i]]]
  /\ UNCHANGED <<upgrade, tickers, tickRef, shown, approval, merged, captured, attached>>

\* Signers decide on a session, or it expires.
ServerDecides(i) ==
  /\ ~upgrade /\ remote[i] = "open"
  /\ \E d \in Decided : remote' = [remote EXCEPT ![i] = d]
  /\ UNCHANGED <<upgrade, fetches, tickers, tickRef, shown, approval, merged, captured, attached>>

AnswerTo(x, kind) ==
  /\ attached
  /\ fetches[x].kind = "answer" /\ fetches[x].to = kind
  /\ UNCHANGED <<upgrade, attached, remote>>

Created(x) ==
  /\ AnswerTo(x, "create")
  /\ Receive(x)
  /\ TickLater(fetches[x].id)
  /\ Show(fetches[x].id, IF upgrade THEN "proposed" ELSE "pending")
  /\ captured' = IF x \in captured THEN (captured \ {x}) \cup {fetches[x].id} ELSE captured
  /\ UNCHANGED merged

SessionPolled(x) ==
  /\ ~upgrade /\ AnswerTo(x, "poll")
  /\ \/ /\ fetches[x].decision = "approved"
        /\ StopTicking
        /\ approval' = "merging"
        /\ Send(x, "merge", fetches[x].id)
     \/ /\ fetches[x].decision \in {"rejected", "expired"}
        /\ StopTicking
        /\ approval' = fetches[x].decision
        /\ Receive(x)
     \/ /\ fetches[x].decision = "open"
        /\ TickLater(fetches[x].id)
        /\ Receive(x)
        /\ UNCHANGED approval
  /\ UNCHANGED <<shown, merged, captured>>

\* The proposal is shown, if the user left it or not; one that is executable turns
\* any status into "approved" when that is the status its closure has.
UpgradePolled(x) ==
  /\ upgrade /\ AnswerTo(x, "poll")
  /\ Receive(x)
  /\ TickLater(fetches[x].id)
  /\ \E executable \in BOOLEAN :
       Show(fetches[x].id,
            IF executable /\ fetches[x].id \in captured THEN "approved" ELSE approval)
  /\ UNCHANGED <<merged, captured>>

Merged(x) ==
  /\ AnswerTo(x, "merge")
  /\ Receive(x)
  /\ approval' = "merged" /\ merged' = fetches[x].id
  /\ UNCHANGED <<tickers, tickRef, shown, captured>>

UpgradeApproved(x) ==
  /\ AnswerTo(x, "approve")
  /\ Receive(x)
  /\ Show(fetches[x].id, "approved")
  /\ UNCHANGED <<tickers, tickRef, merged, captured>>

UpgradeExecuted(x) ==
  /\ AnswerTo(x, "execute")
  /\ Receive(x)
  /\ StopTicking
  /\ Show(fetches[x].id, "executed")
  /\ UNCHANGED <<merged, captured>>

\* The server refuses, or the network loses the call or its answer.
FetchFails(x) ==
  /\ attached /\ fetches[x] # NotFetching
  /\ Receive(x)
  /\ approval' = "error"
  /\ IF AskedBy(x) = "poll"
     THEN StopTicking
     ELSE UNCHANGED <<tickers, tickRef>>
  /\ UNCHANGED <<upgrade, shown, merged, attached, captured, remote>>

\* An answer, or a failure, that comes after the component is gone.
Late(x) ==
  /\ ~attached /\ fetches[x] # NotFetching
  /\ Receive(x)
  /\ UNCHANGED <<upgrade, tickers, tickRef, shown, approval, merged, attached, captured, remote>>

ApprovalNext ==
  \/ \E x \in Fetch :
       \/ CreateSession(x) \/ ProposeUpgrade(x)
       \/ ActOnUpgrade(x, "approve", "approving") \/ ActOnUpgrade(x, "execute", "executing")
       \/ Created(x) \/ SessionPolled(x) \/ UpgradePolled(x) \/ Merged(x)
       \/ UpgradeApproved(x) \/ UpgradeExecuted(x) \/ FetchFails(x) \/ Late(x)
       \/ \E h \in Timeout : Tick(h, x)
       \/ \E i \in Item : ServerAnswers(x, i)
  \/ \E i \in Item : ServerDecides(i)
  \/ CancelSession \/ ResetSession \/ CancelUpgrade \/ Detach

ApprovalSpec == ApprovalInit /\ [][ApprovalNext]_approvalVars

---------------------------------------------------------------------------

\* Whatever answers of sessions and proposals that were left arrive, and in whatever
\* order calls overtake each other and fail: a status that says a call is under way has
\* that call in flight, and while a session is pending or a proposal is proposed, a timer
\* or a poll will bring news of the one that is shown.
ApprovalWatched ==
  attached =>
    /\ approval \in DOMAIN WaitsFor =>
         \E x \in Fetch : AskedBy(x) = WaitsFor[approval]
    /\ approval \in {"pending", "proposed"} =>
         /\ shown # NoItem
         /\ \/ \E h \in Timeout : tickers[h] = shown
            \/ \E x \in Fetch : AskedBy(x) = "poll" /\ fetches[x].id = shown

=============================================================================
