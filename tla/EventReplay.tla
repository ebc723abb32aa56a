---------------------------- MODULE EventReplay ----------------------------
(***************************************************************************)
(* The events of src/events.rs as a change log.  An indexer that sees      *)
(* nothing but the events of the successful receipts, and the block time   *)
(* they ran at, rebuilds what the getters of the contract report.          *)
(*                                                                         *)
(* The replica is strict: it keeps the events that do not fit what it      *)
(* knows (a membership it already has, an old owner that is not the owner, *)
(* a flag already in its state, a report that is not newer) in refused.    *)
(***************************************************************************)
EXTENDS MultiFeed

RoleEventKinds ==
  {"admin_status_changed", "product_status_changed", "price_reporter_status_changed",
   "authorized_caller_status_changed"}

\* The role the events of a kind are about.
RoleOfEvent(kind) ==
  CASE kind = "admin_status_changed"             -> admin
    [] kind = "product_status_changed"           -> products
    [] kind = "price_reporter_status_changed"    -> price_reporters
    [] kind = "authorized_caller_status_changed" -> authorized_callers

\* The getters' view of the contract, and the feeds without None ones.
View ==
  [owner |-> owner,
   paused |-> IsPaused(flags),
   open_read |-> IsOpenRead(flags),
   members |-> [kind \in RoleEventKinds |-> RoleOfEvent(kind)],
   feeds |-> feeds,
   refused |-> {}]

NotFitting(view, e, fits) == IF fits THEN view.refused ELSE view.refused \cup {e}

ApplyOwner(view, e) ==
  [view EXCEPT !.owner = e.new_owner, !.refused = NotFitting(view, e, view.owner = e.old_owner)]

\* One account more or less in the role a membership event is about.
RolesWith(members, e) ==
  [members EXCEPT ![e.event] = IF e.status THEN @ \cup {e.account} ELSE @ \ {e.account}]

ApplyRole(view, e) ==
  [view EXCEPT
     !.members = RolesWith(@, e),
     !.refused = NotFitting(view, e, (e.account \in view.members[e.event]) # e.status)]

ApplyPaused(view, e) ==
  [view EXCEPT !.paused = e.status, !.refused = NotFitting(view, e, view.paused # e.status)]

\* new announces the initial mode of reads whatever it is.
ApplyOpenRead(view, e) ==
  [view EXCEPT
     !.open_read = e.status,
     !.refused = NotFitting(view, e, initialized => view.open_read # e.status)]

\* One entry of an f event, the parallel arrays i, p and t.  The event holds
\* the report as the reporter sent it: the replica keeps what storage keeps.
FeedsWith(stored, e, k) ==
  [id \in DOMAIN stored \cup {e.i[k]} |->
     IF id = e.i[k] THEN Pack(e.p[k], e.t[k], now) ELSE stored[id]]

IsNewer(stored, e, k) == e.i[k] \in DOMAIN stored => stored[e.i[k]].agg_ts < e.t[k]

ApplyReport(view, e, k) ==
  [view EXCEPT
     !.feeds = FeedsWith(@, e, k),
     !.refused = NotFitting(view, e, IsNewer(view.feeds, e, k))]

ApplyReports(view, e) ==
  LET After[k \in 0 .. Len(e.i)] == IF k = 0 THEN view ELSE ApplyReport(After[k - 1], e, k)
  IN  After[Len(e.i)]

ApplyEvent(view, e) ==
  CASE e.event = "ownership_transferred"    -> ApplyOwner(view, e)
    [] e.event \in RoleEventKinds           -> ApplyRole(view, e)
    [] e.event = "paused_status_changed"    -> ApplyPaused(view, e)
    [] e.event = "open_read_status_changed" -> ApplyOpenRead(view, e)
    [] e.event = "f"                        -> ApplyReports(view, e)

\* The events of one receipt, replayed on what the getters reported before it.
Replay(events) ==
  LET Replica[n \in 0 .. Len(events)] ==
        IF n = 0 THEN View ELSE ApplyEvent(Replica[n - 1], events[n])
  IN  Replica[Len(events)]

-----------------------------------------------------------------------------
(* Properties                                                              *)

\* The events of a receipt, replayed in order on what the getters reported
\* before it, give what they report after it, and every one of them fits:
\* no receipt changes state without saying so, and none announces a change
\* that did not happen.
EventsReplayState == [][View' = Replay(emitted')]_vars

\* Entry k of an f event is the last one it has for its feed.
IsLast(e, k) == \A j \in DOMAIN e.i : j > k => e.i[j] # e.i[k]

\* README.md:5 says f stores the latest price per feed and fetch reads it:
\* the price served for a feed is the one the last f event published for it.
ServedPriceIsPublished ==
  \A n \in DOMAIN emitted :
    emitted[n].event = "f" =>
      \A k \in DOMAIN emitted[n].i :
        IsLast(emitted[n], k)
          => FetchBatch(<<emitted[n].i[k]>>)[1] # {}
             /\ \A feed \in FetchBatch(<<emitted[n].i[k]>>)[1] : feed.price = emitted[n].p[k]

\* The six bytes a timestamp is stored in (types.rs:23) lose nothing, because
\* f accepts no date beyond the drift (lib.rs:142): a feed is served with the
\* date the f event published and the block time it ran at, both in full.  A
\* date that lost its high bits would let older reports follow it.
ServedDateIsPublished ==
  \A n \in DOMAIN emitted :
    emitted[n].event = "f" =>
      \A k \in DOMAIN emitted[n].i :
        IsLast(emitted[n], k)
          => FetchBatch(<<emitted[n].i[k]>>)[1] # {}
             /\ \A feed \in FetchBatch(<<emitted[n].i[k]>>)[1] :
                  feed.agg_ts = emitted[n].t[k] /\ feed.onchain_ts = now
=============================================================================
