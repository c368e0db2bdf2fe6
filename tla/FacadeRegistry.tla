--------------------------- MODULE FacadeRegistry ---------------------------
(***************************************************************************)
(* The record that the facade of a client keeps about the backend, and the *)
(* operations of the registry store on it.  A record with no presence      *)
(* stands also for a missing one: neither is opened or closed, and both    *)
(* are opened again when the backend comes back.                           *)
(***************************************************************************)
EXTENDS Naturals

\* epoch: currentEpoch, 0 for null (then there is no presence either).
NoRecord == [epoch |-> 0, subscribed |-> FALSE, data |-> FALSE, open |-> "unsubscribed"]

\* An item is the epoch of the backend in the snapshot, 0 when it is not listed.
ApplyRegistrySnapshot(r, item) ==
  CASE item = r.epoch -> r
    [] item = 0 /\ r.epoch # 0 ->
         [epoch |-> 0, subscribed |-> FALSE, data |-> FALSE,
          open |-> IF r.open = "unsubscribed" THEN r.open ELSE "error"]
    [] item # 0 /\ r.epoch = 0 -> [r EXCEPT !.epoch = item]
    [] OTHER ->
         [epoch |-> item, subscribed |-> FALSE, data |-> FALSE,
          open |-> IF r.open = "subscribed" THEN "error" ELSE "unsubscribed"]

MarkSubscribing(r) == [r EXCEPT !.open = "subscribing"]

MarkSubscribed(r, e) == [r EXCEPT !.epoch = e, !.subscribed = TRUE, !.open = "subscribed"]

MarkUnsubscribed(r) ==
  [r EXCEPT !.subscribed = FALSE, !.data = FALSE, !.open = "unsubscribed"]

MarkDataInitialized(r) == [r EXCEPT !.data = TRUE]

\* The states that reopenDesiredBackends opens again.
Reopens(r) == r.epoch # 0 /\ r.open \in {"unsubscribed", "error"}
=============================================================================
