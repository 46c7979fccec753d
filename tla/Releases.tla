-------------------------------- MODULE Releases --------------------------------
(***************************************************************************)
(* ReleasesService: which releases of a product model an organization may  *)
(* use (its assignments) and which one it configures with (its pin).  The  *)
(* vendor assigns, broadcasts, unassigns and retires while the tenants     *)
(* opt into versions.  Each request is a sequence of statements under READ *)
(* COMMITTED, so what it read may be stale when it writes.                 *)
(***************************************************************************)
EXTENDS Tenancy

CONSTANTS
  Releases,      \* the release keys, "modelId@version"
  NoRelease,
  ModelOf,       \* the model of each release
  VersionOf,     \* and its version
  Requests       \* bound: so many requests are in flight at once

Models == {ModelOf[r] : r \in Releases}

ASSUME ReleasesAssumption ==
  /\ NoRelease \notin Releases
  /\ DOMAIN ModelOf = Releases
  /\ VersionOf \in [Releases -> Nat]

VARIABLES
  status,     \* release.status: a retired release is never published again
  assigned,   \* org_release_assignment, per organization
  pin,        \* org_model_pin: one row per organization and model
  req,        \* the requests in flight, with what they have read
  overtaken   \* history: the assignments removed under a request that had read them

releaseVars == <<status, assigned, pin, req, overtaken>>

Idle == [op |-> "idle", release |-> NoRelease, org |-> NoOrg, todo |-> {}]
Request(op, r, o, todo) == [op |-> op, release |-> r, org |-> o, todo |-> todo]

Ops == {"idle", "broadcast", "assign", "reassign", "pin", "pin_gated", "pin_checked"}

(* What a request is at once it has seen its release assigned to its org.  *)
SeenOps == {"reassign", "pin_gated", "pin_checked"}

ReleasesTypeOK ==
  /\ status \in [Releases -> {"absent", "published", "retired"}]
  /\ assigned \in [Orgs -> SUBSET Releases]
  /\ pin \in [Orgs -> [Models -> Releases \union {NoRelease}]]
  /\ req \in [Requests -> [op : Ops, release : Releases \union {NoRelease},
                           org : Orgs \union {NoOrg}, todo : SUBSET Orgs]]
  /\ overtaken \in [Orgs -> SUBSET Releases]

ReleasesInit ==
  /\ status = [r \in Releases |-> "absent"]
  /\ assigned = [o \in Orgs |-> {}]
  /\ pin = [o \in Orgs |-> [m \in Models |-> NoRelease]]
  /\ req = [p \in Requests |-> Idle]
  /\ overtaken = [o \in Orgs |-> {}]

PinOf(o, r) == pin[o][ModelOf[r]]

--------------------------------------------------------------------------------
(* The life of a release.                                                  *)

(* Publishing inserts; the unique index refuses a second release of a key. *)
Publish(r) ==
  /\ status[r] = "absent"
  /\ status' = [status EXCEPT ![r] = "published"]
  /\ UNCHANGED <<assigned, pin, req, overtaken>>

(* One conditional UPDATE; assignments and pins are left alone.            *)
Retire(r) ==
  /\ status[r] = "published"
  /\ status' = [status EXCEPT ![r] = "retired"]
  /\ UNCHANGED <<assigned, pin, req, overtaken>>

--------------------------------------------------------------------------------
(* Assigning, one organization at a time or by a broadcast.                *)

(* assign has read the release published.                                  *)
Assign(p, o, r) ==
  /\ req[p] = Idle
  /\ status[r] = "published"
  /\ req' = [req EXCEPT ![p] = Request("assign", r, NoOrg, {o})]
  /\ UNCHANGED <<status, assigned, pin, overtaken>>

Broadcast(p, r) ==
  /\ req[p] = Idle
  /\ status[r] = "published"
  /\ req' = [req EXCEPT ![p] = Request("broadcast", r, NoOrg, {})]
  /\ UNCHANGED <<status, assigned, pin, overtaken>>

Behind(r) ==
  {o \in Orgs : PinOf(o, r) # NoRelease /\ VersionOf[PinOf(o, r)] < VersionOf[r]}

(* What is left of a fan-out once o is done.                               *)
Without(p, o) ==
  IF req[p].todo \subseteq {o} THEN Idle
  ELSE [req[p] EXCEPT !.op = "assign", !.org = NoOrg, !.todo = @ \ {o}]

ReadTargets(p) ==
  /\ req[p].op = "broadcast"
  /\ req' = [req EXCEPT ![p] =
       IF Behind(req[p].release) = {} THEN Idle
       ELSE [@ EXCEPT !.op = "assign", !.todo = Behind(req[p].release)]]
  /\ UNCHANGED <<status, assigned, pin, overtaken>>

(* Mutant of EnsuredPin: ON CONFLICT DO UPDATE.                            *)
EnsuredPinMoves(o, r) == [pin EXCEPT ![o][ModelOf[r]] = r]

(* INSERT ... ON CONFLICT DO NOTHING: only a model without a pin gets one. *)
EnsuredPin(o, r) ==
  IF PinOf(o, r) = NoRelease THEN [pin EXCEPT ![o][ModelOf[r]] = r] ELSE pin

(* A new assignment and its pin become visible together, at the commit.    *)
AssignNew(p, o) ==
  LET r == req[p].release IN
  /\ req[p].op = "assign" /\ o \in req[p].todo
  /\ r \notin assigned[o]
  /\ assigned' = [assigned EXCEPT ![o] = @ \union {r}]
  /\ pin' = EnsuredPin(o, r)
  /\ req' = [req EXCEPT ![p] = Without(p, o)]
  /\ overtaken' = [overtaken EXCEPT ![o] = @ \ {r}]
  /\ UNCHANGED status

(* The insert conflicts and locks nothing: the pin is a later statement.   *)
AssignAgain(p, o) ==
  /\ req[p].op = "assign" /\ o \in req[p].todo
  /\ req[p].release \in assigned[o]
  /\ req' = [req EXCEPT ![p].op = "reassign", ![p].org = o]
  /\ UNCHANGED <<status, assigned, pin, overtaken>>

PinAgain(p) ==
  /\ req[p].op = "reassign"
  /\ pin' = EnsuredPin(req[p].org, req[p].release)
  /\ req' = [req EXCEPT ![p] = Without(p, req[p].org)]
  /\ UNCHANGED <<status, assigned, overtaken>>

--------------------------------------------------------------------------------

(* A request that has seen r assigned to o and is on its way to write its  *)
(* pin.                                                                    *)
HasSeen(p, o, r) == req[p].op \in SeenOps /\ req[p].org = o /\ req[p].release = r

(* Mutant of Unassign: the pin of the assignment stays.                    *)
UnassignKeepsPin(o, r) ==
  /\ r \in assigned[o]
  /\ assigned' = [assigned EXCEPT ![o] = @ \ {r}]
  /\ overtaken' =
       IF \E p \in Requests : HasSeen(p, o, r)
       THEN [overtaken EXCEPT ![o] = @ \union {r}] ELSE overtaken
  /\ UNCHANGED <<status, pin, req>>

(* The assignment goes, and the pin if it points at it, in one transaction. *)
Unassign(o, r) ==
  /\ r \in assigned[o]
  /\ assigned' = [assigned EXCEPT ![o] = @ \ {r}]
  /\ pin' = [pin EXCEPT ![o] = [m \in Models |-> IF @[m] = r THEN NoRelease ELSE @[m]]]
  /\ overtaken' =
       IF \E p \in Requests : HasSeen(p, o, r)
       THEN [overtaken EXCEPT ![o] = @ \union {r}] ELSE overtaken
  /\ UNCHANGED <<status, req>>

--------------------------------------------------------------------------------
(* The tenant's opt-in: pinVersion reads the release, the assignment and   *)
(* the pin, one after the other, and only then moves the pin.              *)

PinVersion(p, o, r) ==
  /\ req[p] = Idle
  /\ status[r] = "published"
  /\ req' = [req EXCEPT ![p] = Request("pin", r, o, {})]
  /\ UNCHANGED <<status, assigned, pin, overtaken>>

(* isAssigned: 403 if it is not.                                           *)
PinGated(p) ==
  /\ req[p].op = "pin"
  /\ req' = [req EXCEPT ![p] =
       IF req[p].release \in assigned[req[p].org]
       THEN [@ EXCEPT !.op = "pin_gated"] ELSE Idle]
  /\ UNCHANGED <<status, assigned, pin, overtaken>>

(* findPins: the pin is there already, and nothing is left to do.          *)
PinChecked(p) ==
  /\ req[p].op = "pin_gated"
  /\ req' = [req EXCEPT ![p] =
       IF PinOf(req[p].org, req[p].release) = req[p].release
       THEN Idle ELSE [@ EXCEPT !.op = "pin_checked"]]
  /\ UNCHANGED <<status, assigned, pin, overtaken>>

MovePin(p) ==
  /\ req[p].op = "pin_checked"
  /\ pin' = [pin EXCEPT ![req[p].org][ModelOf[req[p].release]] = req[p].release]
  /\ req' = [req EXCEPT ![p] = Idle]
  /\ UNCHANGED <<status, assigned, overtaken>>

(* A statement or the process fails: what is not committed rolls back, and *)
(* a broadcast leaves the organizations it has not come to.                *)
Fail(p) ==
  /\ req[p] # Idle
  /\ req' = [req EXCEPT ![p] = Idle]
  /\ UNCHANGED <<status, assigned, pin, overtaken>>

--------------------------------------------------------------------------------

RequestStep(p) ==
  \/ \E o \in Orgs, r \in Releases : Assign(p, o, r) \/ PinVersion(p, o, r)
  \/ \E r \in Releases : Broadcast(p, r)
  \/ ReadTargets(p)
  \/ \E o \in Orgs : AssignNew(p, o) \/ AssignAgain(p, o)
  \/ PinAgain(p)
  \/ PinGated(p)
  \/ PinChecked(p)
  \/ MovePin(p)
  \/ Fail(p)

(* The steps that need nothing but the releases' own rows: publishing also *)
(* needs a catalog, and is in Catalog.                                     *)
ReleasesNext ==
  \/ \E r \in Releases : Retire(r)
  \/ \E o \in Orgs, r \in Releases : Unassign(o, r)
  \/ \E p \in Requests : RequestStep(p)

--------------------------------------------------------------------------------

(* "Upgrades are explicit opt-in per tenant" (CORE_SPEC 3, ensurePin): a   *)
(* pin goes from one release to another only as the last step of that      *)
(* tenant's own pinVersion, whatever is assigned, broadcast or retired.    *)
UpgradesAreOptIn ==
  [][\A o \in Orgs, m \in Models :
       pin[o][m] # NoRelease /\ pin'[o][m] \notin {NoRelease, pin[o][m]} =>
         \E p \in Requests :
           /\ req[p].op = "pin_checked" /\ req[p].org = o
           /\ req[p].release = pin'[o][m] /\ req'[p] = Idle]_releaseVars

(* "A pin must never point at an unassigned release" (unassign) holds but  *)
(* for one race: a pin that does was written by a request that had seen    *)
(* the assignment before it was removed.                                   *)
StrayPinsHaveACause ==
  \A o \in Orgs, m \in Models :
    pin[o][m] \in assigned[o] \union overtaken[o] \union {NoRelease}

(* What makes it inductive: pins and requests know releases of their model, *)
(* and a request about to write knows an assignment or was overtaken.      *)
PinsKeepTheirModel ==
  \A o \in Orgs, m \in Models :
    pin[o][m] # NoRelease => ModelOf[pin[o][m]] = m /\ status[pin[o][m]] # "absent"

RequestsKnowTheirRelease ==
  \A p \in Requests :
    /\ req[p].op # "idle" => req[p].release \in Releases /\ status[req[p].release] # "absent"
    /\ req[p].op \in SeenOps \union {"pin"} => req[p].org \in Orgs
    /\ req[p].op \in SeenOps =>
         req[p].release \in assigned[req[p].org] \union overtaken[req[p].org]

ReleasesInv ==
  /\ ReleasesTypeOK
  /\ StrayPinsHaveACause
  /\ PinsKeepTheirModel
  /\ RequestsKnowTheirRelease
================================================================================
