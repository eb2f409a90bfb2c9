----------------------------- MODULE AccessTypes -----------------------------
(***************************************************************************)
(* The users, what they may be allowed, and the requests for a decision    *)
(* about it: shared by the decision cache (EnforcerCache) and by the       *)
(* requests that change users (UserAccess).                                *)
(***************************************************************************)
EXTENDS Integers, FiniteSets

CONSTANTS
  User,
  Item,         \* a resource, an action and a resource item together
  Request,      \* requests for one decision that may be in flight together
  Batch,        \* requests for a batch of decisions
  Asked,        \* the sets of items that a batch asks about
  BatchSize,    \* ENFORCER_MAX_BATCH_SIZE: how many goroutines share a batch
  NoUser

ASSUME AskedAssumption == Asked \subseteq SUBSET Item
ASSUME BatchSizeAssumption == BatchSize \in Nat \ {0}
ASSUME ItemAssumption == IsFiniteSet(Item)
ASSUME NoUserAssumption == NoUser \notin User
ASSUME RequestAssumption == IsFiniteSet(Request) /\ IsFiniteSet(Batch) /\ Request \cap Batch = {}

Verdict == {"allow", "deny"}
=============================================================================
