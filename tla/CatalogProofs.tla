----------------------------- MODULE CatalogProofs ------------------------------
(***************************************************************************)
(* For any organizations, releases, requests, quotes and rebuilds: pins    *)
(* move only by the tenant's opt-in and stray only where an assignment was *)
(* removed under a request that had read it; an issued quote derives again *)
(* from its stamps for ever; and the ledger has every row exactly once,    *)
(* but for the projected rows that a race of rebuilds accounts for.        *)
(***************************************************************************)
EXTENDS Catalog, FiniteSetTheorems, TLAPS

USE DEF releaseVars, SeenOps

--------------------------------------------------------------------------------
(* The releases, whatever else the step does.                              *)

LEMMA InitReleasesInv == ReleasesInit => ReleasesInv
  <1> SUFFICES ASSUME ReleasesInit PROVE ReleasesInv
    OBVIOUS
  <1>1. ReleasesTypeOK
    BY ReleasesAssumption DEF ReleasesInit, ReleasesTypeOK, Idle, Ops
  <1>2. StrayPinsHaveACause /\ PinsKeepTheirModel
    BY DEF ReleasesInit, StrayPinsHaveACause, PinsKeepTheirModel
  <1>3. RequestsKnowTheirRelease
    BY DEF ReleasesInit, RequestsKnowTheirRelease, Idle
  <1>4. QED
    BY <1>1, <1>2, <1>3 DEF ReleasesInv

(* A step that leaves the assignments and the pins alone, forgets no       *)
(* release, and whose requests keep to the invariant.                      *)
LEMMA RequestOnly ==
  ASSUME ReleasesInv, UNCHANGED <<assigned, pin, overtaken>>,
         status' \in [Releases -> {"absent", "published", "retired"}],
         \A r \in Releases : status[r] # "absent" => status'[r] # "absent",
         req' \in [Requests -> [op : Ops, release : Releases \union {NoRelease},
                                org : Orgs \union {NoOrg}, todo : SUBSET Orgs]],
         RequestsKnowTheirRelease'
  PROVE  ReleasesInv'
  <1>1. ReleasesTypeOK'
    BY DEF ReleasesInv, ReleasesTypeOK
  <1>2. StrayPinsHaveACause'
    BY DEF ReleasesInv, StrayPinsHaveACause
  <1>3. PinsKeepTheirModel'
    <2>1. \A o \in Orgs, m \in Models : pin[o][m] \in Releases \union {NoRelease}
      BY DEF ReleasesInv, ReleasesTypeOK
    <2>2. QED
      BY <2>1 DEF ReleasesInv, PinsKeepTheirModel
  <1>4. QED
    BY <1>1, <1>2, <1>3 DEF ReleasesInv

LEMMA PublishKeeps ==
  ASSUME ReleasesInv, NEW r \in Releases, Publish(r)
  PROVE  ReleasesInv'
  <1>1. /\ status' \in [Releases -> {"absent", "published", "retired"}]
        /\ \A s \in Releases : status[s] # "absent" => status'[s] # "absent"
    BY DEF ReleasesInv, ReleasesTypeOK, Publish
  <1>2. RequestsKnowTheirRelease'
    BY <1>1 DEF ReleasesInv, RequestsKnowTheirRelease, Publish
  <1>3. QED
    BY <1>1, <1>2, RequestOnly DEF ReleasesInv, ReleasesTypeOK, Publish

LEMMA RetireKeeps ==
  ASSUME ReleasesInv, NEW r \in Releases, Retire(r)
  PROVE  ReleasesInv'
  <1>1. /\ status' \in [Releases -> {"absent", "published", "retired"}]
        /\ \A s \in Releases : status[s] # "absent" => status'[s] # "absent"
    BY DEF ReleasesInv, ReleasesTypeOK, Retire
  <1>2. RequestsKnowTheirRelease'
    BY <1>1 DEF ReleasesInv, RequestsKnowTheirRelease, Retire
  <1>3. QED
    BY <1>1, <1>2, RequestOnly DEF ReleasesInv, ReleasesTypeOK, Retire

(* A request goes on without writing anything.                             *)
LEMMA ReadsKeep ==
  ASSUME ReleasesInv, NEW p \in Requests, UNCHANGED <<status, assigned, pin, overtaken>>,
         NEW rec \in [op : Ops, release : Releases \union {NoRelease},
                      org : Orgs \union {NoOrg}, todo : SUBSET Orgs],
         req' = [req EXCEPT ![p] = rec],
         rec.op # "idle" => rec.release \in Releases /\ status[rec.release] # "absent",
         rec.op \in SeenOps \union {"pin"} => rec.org \in Orgs,
         rec.op \in SeenOps =>
           rec.release \in assigned[rec.org] \union overtaken[rec.org]
  PROVE  ReleasesInv'
  <1>1. req' \in [Requests -> [op : Ops, release : Releases \union {NoRelease},
                               org : Orgs \union {NoOrg}, todo : SUBSET Orgs]]
    BY DEF ReleasesInv, ReleasesTypeOK
  <1>2. \A q \in Requests : req'[q] = IF q = p THEN rec ELSE req[q]
    BY DEF ReleasesInv, ReleasesTypeOK
  <1>3. RequestsKnowTheirRelease'
    BY <1>2 DEF ReleasesInv, RequestsKnowTheirRelease
  <1>4. QED
    BY <1>1, <1>3, RequestOnly DEF ReleasesInv, ReleasesTypeOK

Requested ==
  [op : Ops, release : Releases \union {NoRelease}, org : Orgs \union {NoOrg},
   todo : SUBSET Orgs]

(* What a request becomes is a request, and an idle one knows nothing.     *)
LEMMA RequestsAreTyped ==
  /\ Idle \in Requested /\ Idle.op = "idle"
  /\ \A op \in Ops, r \in Releases, o \in Orgs \union {NoOrg}, todo \in SUBSET Orgs :
       Request(op, r, o, todo) \in Requested
  BY DEF Requested, Idle, Request, Ops

LEMMA OpenKeeps ==
  ASSUME ReleasesInv, NEW p \in Requests, NEW o \in Orgs, NEW r \in Releases,
         Assign(p, o, r) \/ Broadcast(p, r) \/ PinVersion(p, o, r)
  PROVE  ReleasesInv'
  <1>1. status[r] # "absent" /\ UNCHANGED <<status, assigned, pin, overtaken>>
    BY DEF Assign, Broadcast, PinVersion
  <1>2. CASE Assign(p, o, r)
    <2> DEFINE rec == Request("assign", r, NoOrg, {o})
    <2>1. rec \in Requested /\ rec.op = "assign" /\ rec.release = r
      BY RequestsAreTyped DEF Request, Ops
    <2>2. req' = [req EXCEPT ![p] = rec]
      BY <1>2 DEF Assign
    <2> HIDE DEF rec
    <2>3. QED
      BY <1>1, <2>1, <2>2, ReadsKeep DEF Requested
  <1>3. CASE Broadcast(p, r)
    <2> DEFINE rec == Request("broadcast", r, NoOrg, {})
    <2>1. rec \in Requested /\ rec.op = "broadcast" /\ rec.release = r
      BY RequestsAreTyped DEF Request, Ops
    <2>2. req' = [req EXCEPT ![p] = rec]
      BY <1>3 DEF Broadcast
    <2> HIDE DEF rec
    <2>3. QED
      BY <1>1, <2>1, <2>2, ReadsKeep DEF Requested
  <1>4. CASE PinVersion(p, o, r)
    <2> DEFINE rec == Request("pin", r, o, {})
    <2>1. rec \in Requested /\ rec.op = "pin" /\ rec.release = r /\ rec.org = o
      BY RequestsAreTyped DEF Request, Ops
    <2>2. req' = [req EXCEPT ![p] = rec]
      BY <1>4 DEF PinVersion
    <2> HIDE DEF rec
    <2>3. QED
      BY <1>1, <2>1, <2>2, ReadsKeep DEF Requested
  <1>5. QED
    BY <1>2, <1>3, <1>4

LEMMA FailKeeps ==
  ASSUME ReleasesInv, NEW p \in Requests, Fail(p)
  PROVE  ReleasesInv'
  <1>1. Idle \in Requested /\ Idle.op = "idle" /\ req' = [req EXCEPT ![p] = Idle]
    BY RequestsAreTyped DEF Fail
  <1>2. QED
    BY <1>1, ReadsKeep DEF Fail, Requested

LEMMA ReadTargetsKeeps ==
  ASSUME ReleasesInv, NEW p \in Requests, ReadTargets(p)
  PROVE  ReleasesInv'
  <1> DEFINE targets == [req[p] EXCEPT !.op = "assign", !.todo = Behind(req[p].release)]
             rec == IF Behind(req[p].release) = {} THEN Idle ELSE targets
  <1>1. req[p] \in Requested
    BY DEF ReleasesInv, ReleasesTypeOK, Requested
  <1>2. Behind(req[p].release) \in SUBSET Orgs
    BY DEF Behind
  <1>3. targets \in Requested /\ targets.op = "assign" /\ targets.release = req[p].release
    BY <1>1, <1>2 DEF Requested, Ops
  <1>4. req[p].op = "broadcast" /\ req[p].release \in Releases
        /\ status[req[p].release] # "absent"
    BY DEF ReadTargets, ReleasesInv, RequestsKnowTheirRelease
  <1>5. req' = [req EXCEPT ![p] = rec] /\ UNCHANGED <<status, assigned, pin, overtaken>>
    BY DEF ReadTargets
  <1>6. /\ rec \in Requested
        /\ rec.op # "idle" => rec.op = "assign" /\ rec.release = req[p].release
    BY <1>3, RequestsAreTyped
  <1> HIDE DEF rec, targets
  <1>7. QED
    BY <1>4, <1>5, <1>6, ReadsKeep DEF Requested

LEMMA AssignAgainKeeps ==
  ASSUME ReleasesInv, NEW p \in Requests, NEW o \in Orgs, AssignAgain(p, o)
  PROVE  ReleasesInv'
  <1> DEFINE rec == [req[p] EXCEPT !.op = "reassign", !.org = o]
  <1>1. req[p] \in Requested /\ req \in [Requests -> Requested]
    BY DEF ReleasesInv, ReleasesTypeOK, Requested
  <1>2. /\ rec \in Requested
        /\ rec.op = "reassign" /\ rec.release = req[p].release /\ rec.org = o
    BY <1>1 DEF Requested, Ops
  <1>3. req[p].op = "assign" /\ req[p].release \in Releases
        /\ status[req[p].release] # "absent" /\ req[p].release \in assigned[o]
    BY DEF AssignAgain, ReleasesInv, RequestsKnowTheirRelease
  <1>4. req' = [req EXCEPT ![p] = rec] /\ UNCHANGED <<status, assigned, pin, overtaken>>
    BY <1>1 DEF AssignAgain, Requested
  <1> HIDE DEF rec
  <1>5. QED
    BY <1>2, <1>3, <1>4, ReadsKeep DEF Requested

LEMMA PinGatedKeeps ==
  ASSUME ReleasesInv, NEW p \in Requests, PinGated(p)
  PROVE  ReleasesInv'
  <1> DEFINE o == req[p].org
             r == req[p].release
             gated == [req[p] EXCEPT !.op = "pin_gated"]
             rec == IF r \in assigned[o] THEN gated ELSE Idle
  <1>1. req[p] \in Requested
    BY DEF ReleasesInv, ReleasesTypeOK, Requested
  <1>2. gated \in Requested /\ gated.op = "pin_gated" /\ gated.release = r /\ gated.org = o
    BY <1>1 DEF Requested, Ops
  <1>3. req[p].op = "pin" /\ r \in Releases /\ o \in Orgs /\ status[r] # "absent"
    BY DEF PinGated, ReleasesInv, RequestsKnowTheirRelease
  <1>4. req' = [req EXCEPT ![p] = rec] /\ UNCHANGED <<status, assigned, pin, overtaken>>
    BY DEF PinGated
  <1>5. /\ rec \in Requested
        /\ rec.op # "idle" =>
             rec.op = "pin_gated" /\ rec.release = r /\ rec.org = o /\ r \in assigned[o]
    BY <1>2, RequestsAreTyped
  <1> HIDE DEF rec, gated
  <1>6. QED
    BY <1>3, <1>4, <1>5, ReadsKeep DEF Requested

LEMMA PinCheckedKeeps ==
  ASSUME ReleasesInv, NEW p \in Requests, PinChecked(p)
  PROVE  ReleasesInv'
  <1> DEFINE o == req[p].org
             r == req[p].release
             checked == [req[p] EXCEPT !.op = "pin_checked"]
             rec == IF PinOf(o, r) = r THEN Idle ELSE checked
  <1>1. req[p] \in Requested
    BY DEF ReleasesInv, ReleasesTypeOK, Requested
  <1>2. checked \in Requested /\ checked.op = "pin_checked"
        /\ checked.release = r /\ checked.org = o
    BY <1>1 DEF Requested, Ops
  <1>3. /\ r \in Releases /\ o \in Orgs /\ status[r] # "absent"
        /\ r \in assigned[o] \union overtaken[o]
    BY DEF PinChecked, ReleasesInv, RequestsKnowTheirRelease
  <1>4. req' = [req EXCEPT ![p] = rec] /\ UNCHANGED <<status, assigned, pin, overtaken>>
    BY DEF PinChecked
  <1>5. /\ rec \in Requested
        /\ rec.op # "idle" => rec.op = "pin_checked" /\ rec.release = r /\ rec.org = o
    BY <1>2, RequestsAreTyped
  <1> HIDE DEF rec, checked
  <1>6. QED
    BY <1>3, <1>4, <1>5, ReadsKeep DEF Requested

(* A request goes on after it has written: the assignments it knew are     *)
(* still assigned or overtaken, and the pin it wrote is one of them.       *)
LEMMA WritesKeep ==
  ASSUME ReleasesInv, NEW p \in Requests, NEW o \in Orgs, NEW r \in Releases,
         NEW rec \in Requested,
         UNCHANGED status, status[r] # "absent",
         assigned' \in [Orgs -> SUBSET Releases], overtaken' \in [Orgs -> SUBSET Releases],
         \A q \in Orgs : assigned[q] \union overtaken[q] \subseteq assigned'[q] \union overtaken'[q],
         r \in assigned'[o] \union overtaken'[o],
         pin' = pin \/ pin' = [pin EXCEPT ![o][ModelOf[r]] = r],
         req' = [req EXCEPT ![p] = rec],
         rec.op = "idle" \/ (rec.op = "assign" /\ rec.release = r)
  PROVE  ReleasesInv'
  <1>1. ModelOf[r] \in Models
    BY DEF Models
  <1>2. /\ pin \in [Orgs -> [Models -> Releases \union {NoRelease}]]
        /\ req \in [Requests -> Requested]
    BY DEF ReleasesInv, ReleasesTypeOK, Requested
  <1>3. pin' \in [Orgs -> [Models -> Releases \union {NoRelease}]]
    BY <1>1, <1>2
  <1>4. req' \in [Requests -> Requested]
    BY <1>2
  <1>5. ReleasesTypeOK'
    BY <1>3, <1>4 DEF ReleasesInv, ReleasesTypeOK, Requested
  <1>6. \A q \in Orgs, m \in Models :
          pin'[q][m] = pin[q][m] \/ (q = o /\ m = ModelOf[r] /\ pin'[q][m] = r)
    BY <1>1, <1>2
  <1>7. StrayPinsHaveACause'
    BY <1>6 DEF ReleasesInv, StrayPinsHaveACause
  <1>8. PinsKeepTheirModel'
    BY <1>6 DEF ReleasesInv, PinsKeepTheirModel
  <1>9. \A q \in Requests : req'[q] = IF q = p THEN rec ELSE req[q]
    BY <1>2
  <1>10. RequestsKnowTheirRelease'
    <2>1. SUFFICES ASSUME NEW q \in Requests
                   PROVE  /\ req'[q].op # "idle" =>
                               req'[q].release \in Releases /\ status'[req'[q].release] # "absent"
                          /\ req'[q].op \in SeenOps \union {"pin"} => req'[q].org \in Orgs
                          /\ req'[q].op \in SeenOps =>
                               req'[q].release \in assigned'[req'[q].org] \union overtaken'[req'[q].org]
      BY DEF RequestsKnowTheirRelease
    <2>2. CASE q = p
      BY <2>2, <1>9
    <2>3. CASE q # p
      BY <2>3, <1>9 DEF ReleasesInv, RequestsKnowTheirRelease
    <2>4. QED
      BY <2>2, <2>3
  <1>11. QED
    BY <1>5, <1>7, <1>8, <1>10 DEF ReleasesInv

LEMMA WithoutIsARequest ==
  ASSUME ReleasesInv, NEW p \in Requests, NEW o \in Orgs
  PROVE  /\ Without(p, o) \in Requested
         /\ \/ Without(p, o).op = "idle"
            \/ Without(p, o).op = "assign" /\ Without(p, o).release = req[p].release
  <1> DEFINE rest == [req[p] EXCEPT !.op = "assign", !.org = NoOrg, !.todo = @ \ {o}]
  <1>1. req[p] \in Requested
    BY DEF ReleasesInv, ReleasesTypeOK, Requested
  <1>2. rest \in Requested /\ rest.op = "assign" /\ rest.release = req[p].release
    BY <1>1 DEF Requested, Ops
  <1>3. Without(p, o) = Idle \/ Without(p, o) = rest
    BY DEF Without
  <1> HIDE DEF rest
  <1>4. QED
    BY <1>2, <1>3, RequestsAreTyped

LEMMA AssignNewKeeps ==
  ASSUME ReleasesInv, NEW p \in Requests, NEW o \in Orgs, AssignNew(p, o)
  PROVE  ReleasesInv'
  <1> DEFINE r == req[p].release
  <1>1. req[p].op = "assign" /\ r \in Releases /\ status[r] # "absent"
    BY DEF AssignNew, ReleasesInv, RequestsKnowTheirRelease
  <1>2. /\ assigned' = [assigned EXCEPT ![o] = @ \union {r}]
        /\ overtaken' = [overtaken EXCEPT ![o] = @ \ {r}]
        /\ pin' = pin \/ pin' = [pin EXCEPT ![o][ModelOf[r]] = r]
        /\ req' = [req EXCEPT ![p] = Without(p, o)]
        /\ UNCHANGED status
    BY DEF AssignNew, EnsuredPin
  <1>3. /\ assigned \in [Orgs -> SUBSET Releases]
        /\ overtaken \in [Orgs -> SUBSET Releases]
    BY DEF ReleasesInv, ReleasesTypeOK
  <1> HIDE DEF r
  <1>4. /\ assigned' \in [Orgs -> SUBSET Releases]
        /\ overtaken' \in [Orgs -> SUBSET Releases]
        /\ \A q \in Orgs :
             assigned[q] \union overtaken[q] \subseteq assigned'[q] \union overtaken'[q]
        /\ r \in assigned'[o] \union overtaken'[o]
    BY <1>1, <1>2, <1>3
  <1>5. QED
    BY <1>1, <1>2, <1>4, WithoutIsARequest, WritesKeep DEF r

LEMMA PinAgainKeeps ==
  ASSUME ReleasesInv, NEW p \in Requests, PinAgain(p)
  PROVE  ReleasesInv'
  <1> DEFINE o == req[p].org
             r == req[p].release
  <1>1. req[p].op = "reassign" /\ r \in Releases /\ status[r] # "absent" /\ o \in Orgs
        /\ r \in assigned[o] \union overtaken[o]
    BY DEF PinAgain, ReleasesInv, RequestsKnowTheirRelease
  <1>2. /\ pin' = pin \/ pin' = [pin EXCEPT ![o][ModelOf[r]] = r]
        /\ req' = [req EXCEPT ![p] = Without(p, o)]
        /\ UNCHANGED <<status, assigned, overtaken>>
    BY DEF PinAgain, EnsuredPin
  <1>3. QED
    BY <1>1, <1>2, WithoutIsARequest, WritesKeep DEF ReleasesInv, ReleasesTypeOK

LEMMA MovePinKeeps ==
  ASSUME ReleasesInv, NEW p \in Requests, MovePin(p)
  PROVE  ReleasesInv'
  <1> DEFINE o == req[p].org
             r == req[p].release
  <1>1. req[p].op = "pin_checked" /\ r \in Releases /\ status[r] # "absent" /\ o \in Orgs
        /\ r \in assigned[o] \union overtaken[o]
    BY DEF MovePin, ReleasesInv, RequestsKnowTheirRelease
  <1>2. /\ pin' = [pin EXCEPT ![o][ModelOf[r]] = r]
        /\ req' = [req EXCEPT ![p] = Idle]
        /\ UNCHANGED <<status, assigned, overtaken>>
    BY DEF MovePin
  <1>3. QED
    BY <1>1, <1>2, RequestsAreTyped, WritesKeep DEF ReleasesInv, ReleasesTypeOK

LEMMA UnassignKeeps ==
  ASSUME ReleasesInv, NEW o \in Orgs, NEW r \in Releases, Unassign(o, r)
  PROVE  ReleasesInv'
  <1> DEFINE seen == \E p \in Requests : HasSeen(p, o, r)
  <1>1. /\ assigned \in [Orgs -> SUBSET Releases]
        /\ overtaken \in [Orgs -> SUBSET Releases]
        /\ pin \in [Orgs -> [Models -> Releases \union {NoRelease}]]
    BY DEF ReleasesInv, ReleasesTypeOK
  <1>2. /\ assigned' = [assigned EXCEPT ![o] = @ \ {r}]
        /\ pin' = [pin EXCEPT ![o] = [m \in Models |-> IF @[m] = r THEN NoRelease ELSE @[m]]]
        /\ overtaken' = IF seen THEN [overtaken EXCEPT ![o] = @ \union {r}] ELSE overtaken
        /\ UNCHANGED <<status, req>>
    BY DEF Unassign
  <1>3. \A p \in Requests : HasSeen(p, o, r) => seen
    OBVIOUS
  <1> HIDE DEF seen
  <1>4. /\ assigned' \in [Orgs -> SUBSET Releases]
        /\ overtaken' \in [Orgs -> SUBSET Releases]
        /\ \A q \in Orgs, s \in Releases :
             s \in assigned[q] \union overtaken[q] /\ ~(q = o /\ s = r) =>
               s \in assigned'[q] \union overtaken'[q]
        /\ seen => r \in overtaken'[o]
    BY <1>1, <1>2
  <1>5. /\ pin' \in [Orgs -> [Models -> Releases \union {NoRelease}]]
        /\ \A q \in Orgs, m \in Models :
             \/ pin'[q][m] = pin[q][m] /\ ~(q = o /\ pin[q][m] = r)
             \/ pin'[q][m] = NoRelease
    BY <1>1, <1>2
  <1>6. ReleasesTypeOK'
    BY <1>2, <1>4, <1>5 DEF ReleasesInv, ReleasesTypeOK
  <1>7. StrayPinsHaveACause'
    <2>1. \A q \in Orgs, m \in Models :
            pin[q][m] \in Releases \union {NoRelease}
              /\ pin[q][m] \in assigned[q] \union overtaken[q] \union {NoRelease}
      BY <1>1 DEF ReleasesInv, StrayPinsHaveACause
    <2>2. QED
      BY <1>4, <1>5, <2>1 DEF StrayPinsHaveACause
  <1>8. PinsKeepTheirModel'
    BY <1>2, <1>5 DEF ReleasesInv, PinsKeepTheirModel
  <1>9. RequestsKnowTheirRelease'
    <2>1. \A p \in Requests :
            req[p].op \in SeenOps =>
              req[p].release \in assigned'[req[p].org] \union overtaken'[req[p].org]
      <3>1. SUFFICES ASSUME NEW p \in Requests, req[p].op \in SeenOps
                     PROVE  req[p].release \in assigned'[req[p].org] \union overtaken'[req[p].org]
        OBVIOUS
      <3>2. /\ req[p].release \in Releases /\ req[p].org \in Orgs
            /\ req[p].release \in assigned[req[p].org] \union overtaken[req[p].org]
        BY <3>1 DEF ReleasesInv, RequestsKnowTheirRelease
      <3>3. CASE req[p].org = o /\ req[p].release = r
        BY <3>1, <3>3, <1>3, <1>4 DEF HasSeen
      <3>4. QED
        BY <3>2, <3>3, <1>4
    <2>2. QED
      BY <1>2, <2>1 DEF ReleasesInv, RequestsKnowTheirRelease
  <1>10. QED
    BY <1>6, <1>7, <1>8, <1>9 DEF ReleasesInv
THEOREM ReleasesInvStep ==
  ASSUME ReleasesInv, ReleasesNext \/ UNCHANGED releaseVars
  PROVE  ReleasesInv'
  <1>1. CASE UNCHANGED releaseVars
    BY <1>1, RequestOnly
       DEF ReleasesInv, ReleasesTypeOK, RequestsKnowTheirRelease
  <1>2. ASSUME NEW r \in Releases, Retire(r) PROVE ReleasesInv'
    BY <1>2, RetireKeeps
  <1>3. ASSUME NEW o \in Orgs, NEW r \in Releases, Unassign(o, r) PROVE ReleasesInv'
    BY <1>3, UnassignKeeps
  <1>4. ASSUME NEW p \in Requests, RequestStep(p) PROVE ReleasesInv'
    <2>1. ASSUME NEW o \in Orgs, NEW r \in Releases, Assign(p, o, r) \/ PinVersion(p, o, r)
          PROVE  ReleasesInv'
      BY <2>1, OpenKeeps
    <2>2. ASSUME NEW r \in Releases, Broadcast(p, r) PROVE ReleasesInv'
      <3>1. CASE Orgs = {}
        <4>1. UNCHANGED <<status, assigned, pin, overtaken>>
          BY <2>2 DEF Broadcast
        <4>2. Request("broadcast", r, NoOrg, {}) \in Requested
          BY RequestsAreTyped DEF Ops
        <4>3. QED
          BY <2>2, <4>1, <4>2, ReadsKeep DEF Broadcast, Requested, Request
      <3>2. CASE Orgs # {}
        <4>1. PICK o \in Orgs : TRUE
          BY <3>2
        <4>2. QED
          BY <2>2, <4>1, OpenKeeps
      <3>3. QED
        BY <3>1, <3>2
    <2>3. ASSUME NEW o \in Orgs, AssignNew(p, o) \/ AssignAgain(p, o) PROVE ReleasesInv'
      BY <2>3, AssignNewKeeps, AssignAgainKeeps
    <2>4. QED
      BY <1>4, <2>1, <2>2, <2>3, ReadTargetsKeeps, PinAgainKeeps, PinGatedKeeps,
         PinCheckedKeeps, MovePinKeeps, FailKeeps
         DEF RequestStep
  <1>5. QED
    BY <1>1, <1>2, <1>3, <1>4 DEF ReleasesNext

--------------------------------------------------------------------------------
(* The opt-in.                                                             *)

(* Only a model without a pin gets one from an assignment.                 *)
LEMMA EnsuredPinMovesNothing ==
  ASSUME ReleasesInv, NEW p \in Orgs, NEW r \in Releases, pin' = EnsuredPin(p, r),
         NEW o \in Orgs, NEW m \in Models, pin[o][m] # NoRelease
  PROVE  pin'[o][m] = pin[o][m]
  <1>1. ModelOf[r] \in Models
    BY DEF Models
  <1>2. QED
    BY <1>1 DEF EnsuredPin, PinOf, ReleasesInv, ReleasesTypeOK

LEMMA OptInStep ==
  ASSUME ReleasesInv, ReleasesNext,
         NEW o \in Orgs, NEW m \in Models,
         pin[o][m] # NoRelease, pin'[o][m] \notin {NoRelease, pin[o][m]}
  PROVE  \E p \in Requests :
           /\ req[p].op = "pin_checked" /\ req[p].org = o
           /\ req[p].release = pin'[o][m] /\ req'[p] = Idle
  <1>1. pin' # pin
    OBVIOUS
  <1>2. ASSUME NEW q \in Orgs, NEW r \in Releases, Unassign(q, r) PROVE FALSE
    BY <1>2 DEF Unassign, ReleasesInv, ReleasesTypeOK
  <1>3. ASSUME NEW p \in Requests, NEW q \in Orgs, AssignNew(p, q) PROVE FALSE
    <2>1. req[p].release \in Releases
      BY <1>3 DEF AssignNew, ReleasesInv, RequestsKnowTheirRelease
    <2>2. QED
      BY <1>3, <2>1, EnsuredPinMovesNothing DEF AssignNew
  <1>4. ASSUME NEW p \in Requests, PinAgain(p) PROVE FALSE
    <2>1. req[p].release \in Releases /\ req[p].org \in Orgs
      BY <1>4 DEF PinAgain, ReleasesInv, RequestsKnowTheirRelease
    <2>2. QED
      BY <1>4, <2>1, EnsuredPinMovesNothing DEF PinAgain
  <1>5. ASSUME NEW p \in Requests, MovePin(p)
        PROVE  /\ req[p].op = "pin_checked" /\ req[p].org = o
               /\ req[p].release = pin'[o][m] /\ req'[p] = Idle
    <2>1. req[p].release \in Releases /\ req[p].org \in Orgs
      BY <1>5 DEF MovePin, ReleasesInv, RequestsKnowTheirRelease
    <2>2. ModelOf[req[p].release] \in Models
      BY <2>1 DEF Models
    <2>3. QED
      BY <1>5, <2>1, <2>2 DEF MovePin, ReleasesInv, ReleasesTypeOK
  <1>6. ASSUME NEW p \in Requests, RequestStep(p)
        PROVE  MovePin(p)
    BY <1>1, <1>3, <1>4, <1>6
       DEF RequestStep, Assign, PinVersion, Broadcast, ReadTargets, AssignAgain, PinGated,
           PinChecked, Fail
  <1>7. ASSUME NEW r \in Releases, Retire(r) PROVE FALSE
    BY <1>1, <1>7 DEF Retire
  <1>8. QED
    BY <1>2, <1>5, <1>6, <1>7 DEF ReleasesNext

--------------------------------------------------------------------------------
(* The stores and the quotes.                                              *)

StoresTypeOK ==
  /\ now \in Nat
  /\ body \in [Releases -> [content : Contents \union {None},
                            catalog : CatalogVersions \union {None}]]
  /\ catalogs \in [CatalogVersions -> Contents \union {None}]
  /\ tables \in [Orgs -> [TableVersions ->
                 [from : Nat, to : Nat, content : Contents \union {None}]]]

(* A published release has a catalog that is published.                    *)
PublishedIsWhole ==
  \A r \in Releases : status[r] # "absent" =>
    body[r].catalog \in CatalogVersions /\ catalogs[body[r].catalog] # None

IsAQuote(x) ==
  /\ x \in [at : {"absent", "gated", "issued"}, org : Orgs \union {NoOrg},
            roster : SUBSET Releases, stamps : {x.stamps}, snapshot : {x.snapshot}]
  /\ x.at # "absent" => x.org \in Orgs

(* What a quote rests on is published, and stays what it was derived from. *)
QuotesRestOnStores ==
  /\ quotes = [q \in QuoteIds |-> quotes[q]]
  /\ \A q \in QuoteIds :
       /\ IsAQuote(quotes[q])
       /\ quotes[q].at # "absent" => \A r \in quotes[q].roster : status[r] # "absent"
       /\ quotes[q].at = "issued" =>
            /\ \A r \in quotes[q].roster : quotes[q].stamps.catalogs[r] \in CatalogVersions
            /\ quotes[q].stamps.table \in TableVersions
            /\ Reproduced(q)

CatalogInv ==
  /\ ReleasesInv
  /\ StoresTypeOK
  /\ PublishedIsWhole
  /\ QuotesRestOnStores

(* The stores only grow, and a release is never unpublished.               *)
Grows ==
  /\ \A r \in Releases : status[r] # "absent" =>
       status'[r] # "absent" /\ body'[r] = body[r]
  /\ \A c \in CatalogVersions : catalogs[c] # None => catalogs'[c] = catalogs[c]
  /\ \A o \in Orgs, v \in TableVersions :
       tables[o][v] # NoTable => tables'[o][v] = tables[o][v]

(* In stores that grow a quote goes on being reproduced.                   *)
LEMMA ReproducedStays ==
  ASSUME CatalogInv, Grows, NEW q \in QuoteIds, quotes[q].at = "issued",
         quotes'[q] = quotes[q]
  PROVE  Reproduced(q)'
  <1> DEFINE o == quotes[q].org
             roster == quotes[q].roster
             stamps == quotes[q].stamps
  <1>1. /\ o \in Orgs /\ roster \subseteq Releases
        /\ \A r \in roster : stamps.catalogs[r] \in CatalogVersions
        /\ stamps.table \in TableVersions
        /\ Reproduced(q)
    BY DEF CatalogInv, QuotesRestOnStores, IsAQuote
  <1>2. /\ \A r \in roster : status[r] # "absent" /\ catalogs[stamps.catalogs[r]] # None
        /\ tables[o][stamps.table] # NoTable
        /\ Derived(o, roster, stamps.catalogs, stamps.table) = quotes[q].snapshot
    BY <1>1 DEF Reproduced
  <1>3. /\ \A r \in roster : /\ status'[r] # "absent" /\ body'[r] = body[r]
                            /\ catalogs'[stamps.catalogs[r]] = catalogs[stamps.catalogs[r]]
        /\ tables'[o][stamps.table] = tables[o][stamps.table]
    BY <1>1, <1>2 DEF Grows
  <1>4. /\ [r \in roster |-> body'[r].content] = [r \in roster |-> body[r].content]
        /\ [r \in roster |-> catalogs'[stamps.catalogs[r]]] = [r \in roster |-> catalogs[stamps.catalogs[r]]]
    BY <1>3
  <1>5. Derived(o, roster, stamps.catalogs, stamps.table)' = Derived(o, roster, stamps.catalogs, stamps.table)
    BY <1>3, <1>4 DEF Derived
  <1>6. QED
    BY <1>2, <1>3, <1>5 DEF Reproduced, NoTable

(* So what a step must show of the quotes is what it does to them.         *)
LEMMA QuotesStay ==
  ASSUME CatalogInv, Grows, UNCHANGED quotes
  PROVE  QuotesRestOnStores'
  <1>1. ASSUME NEW q \in QuoteIds, quotes[q].at = "issued" PROVE Reproduced(q)'
    BY <1>1, ReproducedStays
  <1>2. QED
    BY <1>1 DEF CatalogInv, QuotesRestOnStores, IsAQuote, Grows
LEMMA InitCatalogInv == Init => CatalogInv
  <1> SUFFICES ASSUME Init PROVE CatalogInv
    OBVIOUS
  <1>1. ReleasesInv
    BY InitReleasesInv DEF Init
  <1>2. StoresTypeOK
    BY DEF Init, StoresTypeOK, NoBody, NoTable
  <1>3. PublishedIsWhole
    BY DEF Init, ReleasesInit, PublishedIsWhole
  <1>4. QuotesRestOnStores
    BY DEF Init, QuotesRestOnStores, IsAQuote, NoQuote
  <1>5. QED
    BY <1>1, <1>2, <1>3, <1>4 DEF CatalogInv

LEMMA PublishCatalogKeeps ==
  ASSUME CatalogInv, NEW c \in CatalogVersions, NEW k \in Contents, PublishCatalog(c, k)
  PROVE  CatalogInv'
  <1>1. ReleasesInv'
    BY ReleasesInvStep DEF CatalogInv, PublishCatalog
  <1>2. StoresTypeOK'
    BY DEF CatalogInv, StoresTypeOK, PublishCatalog
  <1>3. Grows
    BY DEF CatalogInv, StoresTypeOK, PublishCatalog, Grows
  <1>4. PublishedIsWhole'
    BY CatalogAssumption DEF CatalogInv, StoresTypeOK, PublishedIsWhole, PublishCatalog
  <1>5. QuotesRestOnStores'
    BY <1>3, QuotesStay DEF PublishCatalog
  <1>6. QED
    BY <1>1, <1>2, <1>4, <1>5 DEF CatalogInv

LEMMA PublishReleaseKeeps ==
  ASSUME CatalogInv, NEW r \in Releases, NEW c \in CatalogVersions, NEW k \in Contents,
         PublishRelease(r, c, k)
  PROVE  CatalogInv'
  <1>1. ReleasesInv'
    BY PublishKeeps DEF CatalogInv, PublishRelease
  <1>2. StoresTypeOK'
    BY DEF CatalogInv, StoresTypeOK, PublishRelease
  <1>3. status \in [Releases -> {"absent", "published", "retired"}]
    BY DEF CatalogInv, ReleasesInv, ReleasesTypeOK
  <1>4. Grows
    BY <1>3 DEF CatalogInv, StoresTypeOK, PublishRelease, Publish, Grows
  <1>5. PublishedIsWhole'
    BY <1>3 DEF CatalogInv, StoresTypeOK, PublishedIsWhole, PublishRelease, Publish
  <1>6. QuotesRestOnStores'
    BY <1>4, QuotesStay DEF PublishRelease
  <1>7. QED
    BY <1>1, <1>2, <1>5, <1>6 DEF CatalogInv

LEMMA PublishTableKeeps ==
  ASSUME CatalogInv, NEW o \in Orgs, NEW v \in TableVersions, NEW from \in Times,
         NEW to \in Times \union {Open}, NEW k \in Contents, PublishTable(o, v, from, to, k)
  PROVE  CatalogInv'
  <1>1. ReleasesInv'
    BY ReleasesInvStep DEF CatalogInv, PublishTable
  <1>2. from \in Nat /\ to \in Nat
    BY CatalogAssumption DEF Times, Open
  <1>3. StoresTypeOK'
    BY <1>2 DEF CatalogInv, StoresTypeOK, PublishTable
  <1>4. Grows
    BY DEF CatalogInv, StoresTypeOK, PublishTable, Grows
  <1>5. PublishedIsWhole'
    BY DEF CatalogInv, PublishedIsWhole, PublishTable
  <1>6. QuotesRestOnStores'
    BY <1>4, QuotesStay DEF PublishTable
  <1>7. QED
    BY <1>1, <1>3, <1>5, <1>6 DEF CatalogInv

(* A step that leaves the stores and the quotes alone.                     *)
LEMMA StoresUntouched ==
  ASSUME CatalogInv, ReleasesInv', UNCHANGED <<body, catalogs, tables, quotes>>,
         now' \in Nat, \A r \in Releases : status[r] # "absent" <=> status'[r] # "absent"
  PROVE  CatalogInv'
  <1>1. StoresTypeOK'
    BY DEF CatalogInv, StoresTypeOK
  <1>2. PublishedIsWhole' /\ Grows
    BY DEF CatalogInv, PublishedIsWhole, Grows
  <1>3. QuotesRestOnStores'
    BY <1>2, QuotesStay
  <1>4. QED
    BY <1>1, <1>2, <1>3 DEF CatalogInv

LEMMA TickKeeps ==
  ASSUME CatalogInv, Tick
  PROVE  CatalogInv'
  <1>1. ReleasesInv' /\ now' \in Nat
    BY ReleasesInvStep DEF CatalogInv, StoresTypeOK, Tick
  <1>2. QED
    BY <1>1, StoresUntouched DEF Tick

LEMMA ReleasesKeep ==
  ASSUME CatalogInv, ReleasesNext, UNCHANGED <<body, catalogs, tables, now, quotes>>
  PROVE  CatalogInv'
  <1>1. ReleasesInv' /\ now' \in Nat
    BY ReleasesInvStep DEF CatalogInv, StoresTypeOK
  <1>2. status \in [Releases -> {"absent", "published", "retired"}]
    BY DEF CatalogInv, ReleasesInv, ReleasesTypeOK
  <1>3. \A r \in Releases : status[r] # "absent" <=> status'[r] # "absent"
    <2>1. ASSUME NEW s \in Releases, Retire(s)
          PROVE  \A r \in Releases : status[r] # "absent" <=> status'[r] # "absent"
      BY <2>1, <1>2 DEF Retire
    <2>2. ASSUME NEW o \in Orgs, NEW s \in Releases, Unassign(o, s) PROVE UNCHANGED status
      BY <2>2 DEF Unassign
    <2>3. ASSUME NEW p \in Requests, RequestStep(p) PROVE UNCHANGED status
      BY <2>3 DEF RequestStep, Assign, PinVersion, Broadcast, ReadTargets, AssignNew,
                  AssignAgain, PinAgain, PinGated, PinChecked, MovePin, Fail
    <2>4. QED
      BY <2>1, <2>2, <2>3 DEF ReleasesNext
  <1>4. QED
    BY <1>1, <1>3, StoresUntouched

(* A step of one quote that leaves the stores alone.                       *)
LEMMA OneQuote ==
  ASSUME CatalogInv, NEW q \in QuoteIds, NEW x, quotes' = [quotes EXCEPT ![q] = x],
         UNCHANGED <<releaseVars, body, catalogs, tables, now>>,
         IsAQuote(x),
         x.at # "absent" => \A r \in x.roster : status[r] # "absent",
         x.at = "issued" => /\ \A r \in x.roster : x.stamps.catalogs[r] \in CatalogVersions
                            /\ x.stamps.table \in TableVersions
                            /\ Reproduced(q)'
  PROVE  CatalogInv'
  <1>1. ReleasesInv'
    BY ReleasesInvStep DEF CatalogInv
  <1>2. StoresTypeOK' /\ PublishedIsWhole' /\ Grows
    BY DEF CatalogInv, StoresTypeOK, PublishedIsWhole, Grows
  <1>3. /\ quotes' = [s \in QuoteIds |-> quotes'[s]]
        /\ \A s \in QuoteIds : quotes'[s] = IF s = q THEN x ELSE quotes[s]
    BY DEF CatalogInv, QuotesRestOnStores
  <1>4. ASSUME NEW s \in QuoteIds
        PROVE  /\ IsAQuote(quotes'[s])
               /\ quotes'[s].at # "absent" => \A r \in quotes'[s].roster : status'[r] # "absent"
               /\ quotes'[s].at = "issued" =>
                    /\ \A r \in quotes'[s].roster : quotes'[s].stamps.catalogs[r] \in CatalogVersions
                    /\ quotes'[s].stamps.table \in TableVersions
                    /\ Reproduced(s)'
    <2>1. CASE s = q
      BY <2>1, <1>3
    <2>2. CASE s # q
      <3>1. quotes[s].at = "issued" => Reproduced(s)'
        BY <1>2, <1>3, <2>2, ReproducedStays
      <3>2. QED
        BY <3>1, <1>3, <2>2 DEF CatalogInv, QuotesRestOnStores
    <2>3. QED
      BY <2>1, <2>2
  <1>5. QuotesRestOnStores'
    BY <1>3, <1>4 DEF QuotesRestOnStores, IsAQuote
  <1>6. QED
    BY <1>1, <1>2, <1>5 DEF CatalogInv

LEMMA IssueGateKeeps ==
  ASSUME CatalogInv, NEW q \in QuoteIds, NEW o \in Orgs, NEW roster \in Rosters,
         IssueGate(q, o, roster)
  PROVE  CatalogInv'
  <1> DEFINE x == [NoQuote EXCEPT !.at = "gated", !.org = o, !.roster = roster]
  <1>1. /\ x.at = "gated" /\ x.org = o /\ x.roster = roster
        /\ x.stamps = None /\ x.snapshot = None
    BY DEF NoQuote
  <1>2. IsAQuote(x)
    <2>1. NoQuote \in [at : {"absent"}, org : {NoOrg}, roster : {{}}, stamps : {None}, snapshot : {None}]
      BY DEF NoQuote
    <2>2. x \in [at : {"gated"}, org : Orgs, roster : SUBSET Releases, stamps : {None}, snapshot : {None}]
      BY <2>1 DEF Rosters
    <2> HIDE DEF x
    <2>3. QED
      BY <1>1, <2>2 DEF IsAQuote
  <1>3. quotes' = [quotes EXCEPT ![q] = x] /\ \A r \in roster : status[r] # "absent"
    BY DEF IssueGate
  <1>4. x.at = "gated" /\ x.roster = roster
    BY <1>1
  <1> HIDE DEF x
  <1>5. QED
    BY <1>2, <1>3, <1>4, OneQuote DEF IssueGate

LEMMA IssueFailsKeeps ==
  ASSUME CatalogInv, NEW q \in QuoteIds, IssueFails(q)
  PROVE  CatalogInv'
  <1>1. IsAQuote(NoQuote) /\ NoQuote.at = "absent"
    BY DEF IsAQuote, NoQuote
  <1>2. QED
    BY <1>1, OneQuote DEF IssueFails

LEMMA IssueKeeps ==
  ASSUME CatalogInv, NEW q \in QuoteIds, NEW v \in TableVersions, Issue(q, v)
  PROVE  CatalogInv'
  <1> DEFINE o == quotes[q].org
             roster == quotes[q].roster
             catalogOf == [r \in roster |-> body[r].catalog]
             stamps == [catalogs |-> catalogOf, table |-> v]
             x == [quotes[q] EXCEPT !.at = "issued", !.stamps = stamps,
                                    !.snapshot = Derived(o, roster, catalogOf, v)]
  <1>1. /\ quotes[q].at = "gated" /\ IsActive(o, now, v)
        /\ quotes' = [quotes EXCEPT ![q] = x]
        /\ UNCHANGED <<releaseVars, body, catalogs, tables, now>>
    BY DEF Issue
  <1>2. IsAQuote(quotes[q]) /\ o \in Orgs /\ roster \subseteq Releases
        /\ \A r \in roster : status[r] # "absent"
    BY <1>1 DEF CatalogInv, QuotesRestOnStores, IsAQuote
  <1>3. /\ x.at = "issued" /\ x.org = o /\ x.roster = roster
        /\ x.stamps = stamps /\ x.snapshot = Derived(o, roster, catalogOf, v)
    BY <1>2 DEF IsAQuote
  <1>4. IsAQuote(x)
    <2> DEFINE snapshot == Derived(o, roster, catalogOf, v)
    <2>1. x = [quotes[q] EXCEPT !.at = "issued", !.stamps = stamps, !.snapshot = snapshot]
      OBVIOUS
    <2> HIDE DEF snapshot, stamps
    <2>2. x \in [at : {"issued"}, org : Orgs \union {NoOrg}, roster : SUBSET Releases,
                 stamps : {stamps}, snapshot : {snapshot}]
      BY <1>2, <2>1 DEF IsAQuote
    <2>3. x.stamps = stamps /\ x.snapshot = snapshot /\ x.org = o
      BY <1>3 DEF snapshot
    <2> HIDE DEF x
    <2>4. QED
      BY <1>2, <2>2, <2>3 DEF IsAQuote
  <1>5. \A r \in roster : /\ catalogOf[r] \in CatalogVersions
                          /\ catalogs[catalogOf[r]] # None
    BY <1>2 DEF CatalogInv, PublishedIsWhole
  <1>6. tables[o][v] # NoTable
    <2>1. /\ tables[o][v].from <= now /\ now < tables[o][v].to /\ now \in Nat
      BY <1>1 DEF IsActive, InForce, CatalogInv, StoresTypeOK
    <2>2. QED
      BY <2>1 DEF NoTable
  <1>7. quotes'[q] = x
    BY <1>1 DEF CatalogInv, QuotesRestOnStores
  <1>8. Reproduced(q)'
    <2>1. /\ quotes'[q].org = o /\ quotes'[q].roster = roster
          /\ quotes'[q].stamps.catalogs = catalogOf /\ quotes'[q].stamps.table = v
          /\ quotes'[q].snapshot = Derived(o, roster, catalogOf, v)
      BY <1>3, <1>7
    <2> HIDE DEF x, stamps, catalogOf, roster, o
    <2>2. Derived(o, roster, catalogOf, v)' = Derived(o, roster, catalogOf, v)
      BY <1>1, <2>1 DEF Derived, o, roster, catalogOf
    <2>3. QED
      BY <1>1, <1>2, <1>5, <1>6, <2>1, <2>2 DEF Reproduced, NoTable, Derived
  <1>9. /\ x.at = "issued" /\ x.roster = roster
        /\ x.stamps.catalogs = catalogOf /\ x.stamps.table = v
    BY <1>3
  <1> HIDE DEF x, stamps, catalogOf
  <1>10. QED
    BY <1>1, <1>2, <1>4, <1>5, <1>8, <1>9, OneQuote
LEMMA CatalogInvStep ==
  ASSUME CatalogInv, Next \/ UNCHANGED vars
  PROVE  CatalogInv'
  <1>1. CASE StoresNext
    BY <1>1, PublishCatalogKeeps, PublishReleaseKeeps, PublishTableKeeps, TickKeeps
       DEF StoresNext
  <1>2. CASE QuotesNext
    BY <1>2, IssueGateKeeps, IssueKeeps, IssueFailsKeeps DEF QuotesNext
  <1>3. CASE ReleasesNext /\ UNCHANGED <<ledgerVars, body, catalogs, tables, now, quotes>>
    BY <1>3, ReleasesKeep
  <1>4. CASE UNCHANGED <<releaseVars, body, catalogs, tables, now, quotes>>
    <2>1. ReleasesInv' /\ now' \in Nat
      BY <1>4, ReleasesInvStep DEF CatalogInv, StoresTypeOK
    <2>2. QED
      BY <1>4, <2>1, StoresUntouched
  <1>5. QED
    BY <1>1, <1>2, <1>3, <1>4 DEF Next, vars

--------------------------------------------------------------------------------
(* The ledger.                                                             *)

(* Its rows are those of the quotes that were issued.                      *)
RowsAreIssued ==
  \A row \in ledger : row.quote \in IssuedBy(row.org)

MarginRowsStand ==
  \A o \in Orgs : \A q \in IssuedBy(o) :
    RowsOf(q, "margin_override") = {Row(o, q, "margin_override", "issue")}

OverrideRowsStand ==
  \A o \in Orgs : \A q \in IssuedBy(o) \ drifted :
    \E act \in Acts : RowsOf(q, "quote_override") = {Row(o, q, "quote_override", act)}

(* Until its DELETE a rebuild knows of every quote, or misses it; what the *)
(* DELETE dooms are rows of those; and unless another one overlapped, all. *)
Heard(b) == rebuild[b].seen \union rebuild[b].missed

KnowsAllQuotes(b) == IssuedBy(rebuild[b].org) \subseteq Heard(b)

DoomsHeardOnly(b) ==
  \A row \in rebuild[b].doomed : row.source = "quote_override" /\ row.quote \in Heard(b)

DoomsAllHeard(b) ==
  \A row \in ledger :
    row.source = "quote_override" /\ row.quote \in Heard(b) => row \in rebuild[b].doomed

KnowsItsQuotes(b) ==
  /\ rebuild[b].org \in Orgs
  /\ Heard(b) \subseteq IssuedBy(rebuild[b].org)
  /\ rebuild[b].at = "read" => KnowsAllQuotes(b)
  /\ rebuild[b].at = "deleted" => DoomsHeardOnly(b)
  /\ rebuild[b].at = "deleted" /\ ~rebuild[b].overlapped => DoomsAllHeard(b)

InProgress(b) == rebuild[b].at \in {"read", "deleted"}

RebuildsKnowTheirQuotes == \A b \in Rebuilds : InProgress(b) => KnowsItsQuotes(b)

OverlapsAreKnown ==
  \A b, c \in Rebuilds, o \in Orgs :
    b # c /\ Running(b, o) /\ Running(c, o) => rebuild[b].overlapped

LedgerInv ==
  /\ LedgerTypeOK
  /\ RowsAreIssued
  /\ MarginRowsStand
  /\ OverrideRowsStand
  /\ RebuildsKnowTheirQuotes
  /\ OverlapsAreKnown

LEMMA IssuedByFacts ==
  /\ \A o : IssuedBy(o) = {q \in QuoteIds : quotes[q].at = "issued" /\ quotes[q].org = o}
  /\ \A o1, o2, q : q \in IssuedBy(o1) /\ q \in IssuedBy(o2) => o1 = o2
  BY DEF IssuedBy, Issued

RebuildRecords ==
  [at : {"called", "read", "deleted", "done"}, org : Orgs \union {NoOrg},
   seen : SUBSET QuoteIds, doomed : SUBSET Rows, missed : SUBSET QuoteIds,
   overlapped : BOOLEAN]

LEMMA CallFacts ==
  ASSUME NEW at \in {"called", "read", "deleted", "done"}
  PROVE  Call(at) \in RebuildRecords /\ Call(at).at = at
  BY DEF Call, RebuildRecords

LEMMA InitLedgerInv == Init => LedgerInv
  <1> SUFFICES ASSUME Init PROVE LedgerInv
    OBVIOUS
  <1>1. \A o : IssuedBy(o) = {}
    BY DEF Init, IssuedBy, Issued, NoQuote
  <1>2. /\ ledger = {} /\ drifted = {}
        /\ \A b \in Rebuilds : rebuild[b] = Call("called")
        /\ rebuild \in [Rebuilds -> {Call("called")}]
    BY DEF Init, LedgerInit
  <1>3. Call("called") \in RebuildRecords
    BY CallFacts DEF RebuildRecords
  <1>4. LedgerTypeOK
    BY <1>2, <1>3 DEF LedgerTypeOK, RebuildRecords
  <1>5. \A b \in Rebuilds : rebuild[b].at = "called"
    BY <1>2, CallFacts
  <1>6. RebuildsKnowTheirQuotes /\ OverlapsAreKnown
    BY <1>5 DEF RebuildsKnowTheirQuotes, InProgress, OverlapsAreKnown, Running
  <1>7. QED
    BY <1>1, <1>2, <1>4, <1>6 DEF LedgerInv, RowsAreIssued, MarginRowsStand, OverrideRowsStand

LEMMA LedgerUntouched ==
  ASSUME LedgerInv, UNCHANGED ledgerVars, \A o : IssuedBy(o)' = IssuedBy(o)
  PROVE  LedgerInv'
  BY DEF LedgerInv, ledgerVars, LedgerTypeOK, RowsAreIssued, MarginRowsStand, OverrideRowsStand,
         RebuildsKnowTheirQuotes, InProgress, KnowsItsQuotes, KnowsAllQuotes,
         DoomsHeardOnly, DoomsAllHeard, Heard, OverlapsAreKnown, RowsOf, Running

LEMMA RecordIssueKeeps ==
  ASSUME LedgerInv, NEW o \in Orgs, NEW q \in QuoteIds, RecordIssue(o, q),
         \A p : q \notin IssuedBy(p),
         \A p : IssuedBy(p)' = IF p = o THEN IssuedBy(p) \union {q} ELSE IssuedBy(p)
  PROVE  LedgerInv'
  <1> DEFINE margin == Row(o, q, "margin_override", "issue")
             override == Row(o, q, "quote_override", "issue")
  <1>1. /\ ledger' = ledger \union {margin, override}
        /\ margin.quote = q /\ margin.org = o /\ margin.source = "margin_override"
        /\ override.quote = q /\ override.org = o /\ override.source = "quote_override"
        /\ UNCHANGED drifted
    BY DEF RecordIssue, Sources, Row
  <1>2. margin \in Rows /\ override \in Rows
    BY DEF Rows, Row, Sources, Acts
  <1>3. \A b \in Rebuilds :
          rebuild'[b] = IF rebuild[b].at = "read" /\ rebuild[b].org = o
                        THEN [rebuild[b] EXCEPT !.missed = @ \union {q}] ELSE rebuild[b]
    BY DEF RecordIssue
  <1>4. LedgerTypeOK'
    <2>1. ledger' \subseteq Rows
      BY <1>1, <1>2 DEF LedgerInv, LedgerTypeOK
    <2>2. QED
      BY <2>1, <1>1 DEF LedgerInv, LedgerTypeOK, RecordIssue
  <1>5. \A b \in Rebuilds :
          /\ rebuild'[b].at = rebuild[b].at /\ rebuild'[b].org = rebuild[b].org
          /\ rebuild'[b].seen = rebuild[b].seen /\ rebuild'[b].doomed = rebuild[b].doomed
          /\ rebuild'[b].overlapped = rebuild[b].overlapped
          /\ rebuild'[b].missed = IF rebuild[b].at = "read" /\ rebuild[b].org = o
                                  THEN rebuild[b].missed \union {q} ELSE rebuild[b].missed
    BY <1>3 DEF LedgerInv, LedgerTypeOK
  <1> HIDE DEF margin, override
  <1>6. RowsAreIssued'
    BY <1>1 DEF LedgerInv, RowsAreIssued
  <1>7. \A row \in ledger : row.quote # q
    BY DEF LedgerInv, RowsAreIssued
  <1>8. /\ RowsOf(q, "margin_override")' = {margin}
        /\ RowsOf(q, "quote_override")' = {override}
        /\ \A s, source : s # q => RowsOf(s, source)' = RowsOf(s, source)
    BY <1>1, <1>7 DEF RowsOf
  <1>9. MarginRowsStand'
    BY <1>8 DEF LedgerInv, MarginRowsStand, margin
  <1>10. OverrideRowsStand'
    BY <1>1, <1>8 DEF LedgerInv, OverrideRowsStand, override, Acts
  <1>11. ASSUME NEW b \in Rebuilds, InProgress(b)'
         PROVE  KnowsItsQuotes(b)'
    <2>1. InProgress(b) /\ KnowsItsQuotes(b)
      BY <1>5, <1>11 DEF LedgerInv, RebuildsKnowTheirQuotes, InProgress
    <2>2. CASE rebuild[b].at = "read"
      <3>1. Heard(b)' = IF rebuild[b].org = o THEN Heard(b) \union {q} ELSE Heard(b)
        BY <1>5, <2>2 DEF Heard
      <3>2. QED
        BY <2>1, <2>2, <3>1, <1>5 DEF KnowsItsQuotes, KnowsAllQuotes
    <2>3. CASE rebuild[b].at = "deleted"
      <3>1. Heard(b)' = Heard(b) /\ q \notin Heard(b)
        BY <2>1, <2>3, <1>5 DEF KnowsItsQuotes, Heard
      <3>2. QED
        BY <2>1, <2>3, <3>1, <1>1, <1>5 DEF KnowsItsQuotes, DoomsHeardOnly, DoomsAllHeard
    <2>4. QED
      BY <2>1, <2>2, <2>3 DEF InProgress
  <1>12. OverlapsAreKnown'
    BY <1>5 DEF LedgerInv, OverlapsAreKnown, Running
  <1>13. QED
    BY <1>4, <1>6, <1>9, <1>10, <1>11, <1>12 DEF LedgerInv, RebuildsKnowTheirQuotes

LEMMA RebuildReadKeeps ==
  ASSUME LedgerInv, NEW b \in Rebuilds, NEW o \in Orgs, RebuildRead(b, o, IssuedBy(o)),
         IssuedBy(o) \subseteq QuoteIds, \A p : IssuedBy(p)' = IssuedBy(p)
  PROVE  LedgerInv'
  <1> DEFINE others == {c \in Rebuilds : Running(c, o)}
             mine == [Call("read") EXCEPT !.org = o, !.seen = IssuedBy(o),
                                          !.overlapped = others # {}]
  <1>1. /\ rebuild[b].at = "called"
        /\ UNCHANGED <<ledger, drifted>>
        /\ rebuild' = [c \in Rebuilds |->
             CASE c = b -> mine
               [] c \in others -> [rebuild[c] EXCEPT !.overlapped = TRUE]
               [] OTHER -> rebuild[c]]
    BY DEF RebuildRead
  <1>2. b \notin others
    BY <1>1 DEF Running
  <1>3. /\ mine.at = "read" /\ mine.org = o /\ mine.seen = IssuedBy(o)
        /\ mine.missed = {} /\ mine.doomed = {} /\ mine.overlapped = (others # {})
        /\ mine \in RebuildRecords
    BY DEF Call, RebuildRecords
  <1>4. \A c \in Rebuilds : rebuild[c] \in RebuildRecords
    BY DEF LedgerInv, LedgerTypeOK, RebuildRecords
  <1> HIDE DEF mine, others
  <1>5. /\ rebuild'[b] = mine
        /\ \A c \in others : rebuild'[c] = [rebuild[c] EXCEPT !.overlapped = TRUE]
        /\ \A c \in Rebuilds \ others : c # b => rebuild'[c] = rebuild[c]
    BY <1>1, <1>2 DEF others
  <1>6. \A c \in Rebuilds : c # b =>
          /\ rebuild'[c].at = rebuild[c].at /\ rebuild'[c].org = rebuild[c].org
          /\ rebuild'[c].seen = rebuild[c].seen /\ rebuild'[c].doomed = rebuild[c].doomed
          /\ rebuild'[c].missed = rebuild[c].missed
          /\ rebuild'[c].overlapped = (c \in others \/ rebuild[c].overlapped)
          /\ rebuild'[c] \in RebuildRecords
    <2> SUFFICES ASSUME NEW c \in Rebuilds, c # b
                 PROVE  /\ rebuild'[c].at = rebuild[c].at /\ rebuild'[c].org = rebuild[c].org
                        /\ rebuild'[c].seen = rebuild[c].seen
                        /\ rebuild'[c].doomed = rebuild[c].doomed
                        /\ rebuild'[c].missed = rebuild[c].missed
                        /\ rebuild'[c].overlapped = (c \in others \/ rebuild[c].overlapped)
                        /\ rebuild'[c] \in RebuildRecords
      OBVIOUS
    <2>1. CASE c \in others
      <3>1. rebuild'[c] = [rebuild[c] EXCEPT !.overlapped = TRUE]
        BY <2>1, <1>5
      <3>2. QED
        BY <2>1, <3>1, <1>4 DEF RebuildRecords
    <2>2. CASE c \notin others
      <3>1. rebuild'[c] = rebuild[c]
        BY <2>2, <1>5
      <3>2. rebuild[c].overlapped \in BOOLEAN
        BY <1>4 DEF RebuildRecords
      <3>3. QED
        BY <2>2, <3>1, <3>2, <1>4
    <2>3. QED
      BY <2>1, <2>2
  <1>7. LedgerTypeOK'
    <2>1. rebuild' \in [Rebuilds -> RebuildRecords]
      <3>1. \A c \in Rebuilds : rebuild'[c] \in RebuildRecords
        BY <1>3, <1>5, <1>6
      <3>2. rebuild' = [c \in Rebuilds |-> rebuild'[c]]
        BY <1>1
      <3>3. QED
        BY <3>1, <3>2
    <2>2. QED
      BY <1>1, <2>1 DEF LedgerInv, LedgerTypeOK, RebuildRecords
  <1>8. RowsAreIssued' /\ MarginRowsStand' /\ OverrideRowsStand'
    BY <1>1 DEF LedgerInv, RowsAreIssued, MarginRowsStand, OverrideRowsStand, RowsOf
  <1>9. ASSUME NEW c \in Rebuilds, InProgress(c)'
        PROVE  KnowsItsQuotes(c)'
    <2>1. CASE c = b
      BY <2>1, <1>3, <1>5 DEF KnowsItsQuotes, KnowsAllQuotes, Heard
    <2>2. CASE c # b
      <3>1. InProgress(c) /\ KnowsItsQuotes(c)
        BY <1>6, <1>9, <2>2 DEF LedgerInv, RebuildsKnowTheirQuotes, InProgress
      <3>2. Heard(c)' = Heard(c)
        BY <1>6, <2>2 DEF Heard
      <3>3. QED
        BY <1>1, <1>6, <2>2, <3>1, <3>2
           DEF KnowsItsQuotes, KnowsAllQuotes, DoomsHeardOnly, DoomsAllHeard
    <2>3. QED
      BY <2>1, <2>2
  <1>10. OverlapsAreKnown'
    <2> SUFFICES ASSUME NEW c \in Rebuilds, NEW d \in Rebuilds, NEW p \in Orgs,
                        c # d, Running(c, p)', Running(d, p)'
                 PROVE  rebuild'[c].overlapped
      BY DEF OverlapsAreKnown
    <2>1. CASE c = b
      <3>1. d \in others
        BY <2>1, <1>3, <1>5, <1>6 DEF Running, others
      <3>2. QED
        BY <2>1, <3>1, <1>3, <1>5
    <2>2. CASE c # b
      <3>1. CASE d = b
        <4>1. c \in others
          BY <2>2, <3>1, <1>3, <1>5, <1>6 DEF Running, others
        <4>2. QED
          BY <2>2, <4>1, <1>6
      <3>2. CASE d # b
        BY <2>2, <3>2, <1>6 DEF LedgerInv, OverlapsAreKnown, Running
      <3>3. QED
        BY <3>1, <3>2
    <2>3. QED
      BY <2>1, <2>2
  <1>11. QED
    BY <1>7, <1>8, <1>9, <1>10 DEF LedgerInv, RebuildsKnowTheirQuotes

LEMMA RebuildDeleteKeeps ==
  ASSUME LedgerInv, NEW b \in Rebuilds, RebuildDelete(b), \A p : IssuedBy(p)' = IssuedBy(p)
  PROVE  LedgerInv'
  <1> DEFINE o == rebuild[b].org
  <1>1. /\ rebuild[b].at = "read" /\ UNCHANGED <<ledger, drifted>>
        /\ rebuild' = [rebuild EXCEPT ![b].at = "deleted", ![b].doomed = Doomed(o)]
    BY DEF RebuildDelete
  <1>2. Doomed(o) \subseteq ledger
    BY DEF Doomed
  <1>3. \A c \in Rebuilds : rebuild[c] \in RebuildRecords
    BY DEF LedgerInv, LedgerTypeOK, RebuildRecords
  <1>4. /\ rebuild'[b].at = "deleted" /\ rebuild'[b].doomed = Doomed(o)
        /\ \A c \in Rebuilds :
             /\ rebuild'[c].org = rebuild[c].org /\ rebuild'[c].seen = rebuild[c].seen
             /\ rebuild'[c].missed = rebuild[c].missed
             /\ rebuild'[c].overlapped = rebuild[c].overlapped
             /\ c # b => rebuild'[c] = rebuild[c]
    BY <1>1, <1>3 DEF LedgerInv, LedgerTypeOK, RebuildRecords
  <1>5. LedgerTypeOK'
    <2>1. Doomed(o) \subseteq Rows
      BY <1>2 DEF LedgerInv, LedgerTypeOK
    <2> HIDE DEF o
    <2>2. rebuild' \in [Rebuilds -> RebuildRecords]
      BY <1>1, <2>1 DEF LedgerInv, LedgerTypeOK, RebuildRecords
    <2>3. QED
      BY <1>1, <2>2 DEF LedgerInv, LedgerTypeOK, RebuildRecords
  <1>6. RowsAreIssued' /\ MarginRowsStand' /\ OverrideRowsStand'
    BY <1>1 DEF LedgerInv, RowsAreIssued, MarginRowsStand, OverrideRowsStand, RowsOf
  <1>7. ASSUME NEW c \in Rebuilds, InProgress(c)'
        PROVE  KnowsItsQuotes(c)'
    <2>1. InProgress(c) /\ KnowsItsQuotes(c)
      BY <1>1, <1>4, <1>7 DEF LedgerInv, RebuildsKnowTheirQuotes, InProgress
    <2>2. Heard(c)' = Heard(c)
      BY <1>4 DEF Heard
    <2>3. CASE c # b
      BY <1>1, <1>4, <2>1, <2>2, <2>3
         DEF KnowsItsQuotes, KnowsAllQuotes, DoomsHeardOnly, DoomsAllHeard
    <2>4. CASE c = b
      <3>1. IssuedBy(o) = Heard(b) /\ o \in Orgs
        BY <1>1, <2>1, <2>4 DEF KnowsItsQuotes, KnowsAllQuotes
      <3>2. \A row \in Doomed(o) : row.source = "quote_override" /\ row.quote \in Heard(b)
        BY <3>1 DEF Doomed, LedgerInv, RowsAreIssued
      <3>3. \A row \in ledger :
              row.source = "quote_override" /\ row.quote \in Heard(b) => row \in Doomed(o)
        BY <3>1, IssuedByFacts DEF Doomed, LedgerInv, RowsAreIssued
      <3>4. DoomsHeardOnly(b)' /\ DoomsAllHeard(b)'
        BY <1>1, <1>4, <2>2, <2>4, <3>2, <3>3 DEF DoomsHeardOnly, DoomsAllHeard
      <3>5. rebuild'[b].at = "deleted" /\ rebuild'[b].org = o
        BY <1>4
      <3>6. QED
        BY <2>2, <2>4, <3>1, <3>4, <3>5 DEF KnowsItsQuotes
    <2>5. QED
      BY <2>3, <2>4
  <1>8. OverlapsAreKnown'
    <2> HIDE DEF o
    <2>1. \A c \in Rebuilds, p \in Orgs : Running(c, p)' <=> Running(c, p)
      BY <1>1, <1>4 DEF Running
    <2>2. \A c \in Rebuilds : rebuild'[c].overlapped = rebuild[c].overlapped
      BY <1>4
    <2>3. QED
      BY <2>1, <2>2 DEF LedgerInv, OverlapsAreKnown
  <1>9. QED
    BY <1>5, <1>6, <1>7, <1>8 DEF LedgerInv, RebuildsKnowTheirQuotes

(* The end of a rebuild, whether it commits or not.                        *)
LEMMA RebuildEnds ==
  ASSUME LedgerInv, NEW b \in Rebuilds, rebuild' = [rebuild EXCEPT ![b] = Call("done")]
  PROVE  /\ rebuild' \in [Rebuilds -> RebuildRecords]
         /\ rebuild'[b].at = "done"
         /\ \A c \in Rebuilds : c # b => rebuild'[c] = rebuild[c]
         /\ OverlapsAreKnown'
  <1>1. rebuild \in [Rebuilds -> RebuildRecords]
    BY DEF LedgerInv, LedgerTypeOK, RebuildRecords
  <1>2. /\ rebuild' \in [Rebuilds -> RebuildRecords]
        /\ rebuild'[b].at = "done"
        /\ \A c \in Rebuilds : c # b => rebuild'[c] = rebuild[c]
    BY <1>1, CallFacts
  <1>3. OverlapsAreKnown'
    BY <1>2 DEF LedgerInv, OverlapsAreKnown, Running
  <1>4. QED
    BY <1>2, <1>3

LEMMA RebuildFailsKeeps ==
  ASSUME LedgerInv, NEW b \in Rebuilds, RebuildFails(b), \A p : IssuedBy(p)' = IssuedBy(p)
  PROVE  LedgerInv'
  <1>1. rebuild' = [rebuild EXCEPT ![b] = Call("done")] /\ UNCHANGED <<ledger, drifted>>
    BY DEF RebuildFails
  <1>2. LedgerTypeOK' /\ OverlapsAreKnown'
    BY <1>1, RebuildEnds DEF LedgerInv, LedgerTypeOK, RebuildRecords
  <1>3. RowsAreIssued' /\ MarginRowsStand' /\ OverrideRowsStand'
    BY <1>1 DEF LedgerInv, RowsAreIssued, MarginRowsStand, OverrideRowsStand, RowsOf
  <1>4. RebuildsKnowTheirQuotes'
    BY <1>1, RebuildEnds
       DEF LedgerInv, RebuildsKnowTheirQuotes, InProgress, KnowsItsQuotes, KnowsAllQuotes,
           DoomsHeardOnly, DoomsAllHeard, Heard
  <1>5. QED
    BY <1>2, <1>3, <1>4 DEF LedgerInv

LEMMA RebuildCommitKeeps ==
  ASSUME LedgerInv, NEW b \in Rebuilds, RebuildCommit(b), \A p : IssuedBy(p)' = IssuedBy(p)
  PROVE  LedgerInv'
  <1> DEFINE o == rebuild[b].org
             seen == rebuild[b].seen
             missed == rebuild[b].missed
             doomed == rebuild[b].doomed
             anew == Projection(o, seen, b)
  <1>1. /\ rebuild[b].at = "deleted"
        /\ ledger' = (ledger \ doomed) \union anew
        /\ rebuild' = [rebuild EXCEPT ![b] = Call("done")]
        /\ drifted' = IF rebuild[b].overlapped THEN drifted \union seen \union missed
                      ELSE (drifted \ seen) \union missed
    BY DEF RebuildCommit
  <1>2. InProgress(b) /\ KnowsItsQuotes(b)
    BY <1>1 DEF LedgerInv, RebuildsKnowTheirQuotes, InProgress
  <1>3. /\ o \in Orgs /\ seen \subseteq IssuedBy(o) /\ missed \subseteq IssuedBy(o)
        /\ \A row \in doomed : row.source = "quote_override" /\ row.quote \in seen \union missed
        /\ ~rebuild[b].overlapped =>
             \A row \in ledger :
               row.source = "quote_override" /\ row.quote \in seen \union missed => row \in doomed
    BY <1>1, <1>2 DEF KnowsItsQuotes, Heard, DoomsHeardOnly, DoomsAllHeard
  <1>4. /\ \A row \in anew : row.org = o /\ row.source = "quote_override" /\ row.quote \in seen
        /\ \A q \in seen : {row \in anew : row.quote = q} = {Row(o, q, "quote_override", b)}
    BY DEF Projection, Row
  <1>5. seen \subseteq QuoteIds /\ missed \subseteq QuoteIds
    BY DEF LedgerInv, LedgerTypeOK
  <1>6. anew \subseteq Rows
    BY <1>3, <1>5 DEF Projection, Row, Rows, Sources, Acts
  <1> HIDE DEF anew
  <1>7. LedgerTypeOK'
    <2>1. ledger' \subseteq Rows /\ drifted' \subseteq QuoteIds
      BY <1>1, <1>5, <1>6 DEF LedgerInv, LedgerTypeOK
    <2>2. QED
      BY <2>1, <1>1, RebuildEnds DEF LedgerTypeOK, RebuildRecords
  <1>8. RowsAreIssued'
    BY <1>1, <1>3, <1>4 DEF LedgerInv, RowsAreIssued
  <1>9. \A q : RowsOf(q, "margin_override")' = RowsOf(q, "margin_override")
    BY <1>1, <1>3, <1>4 DEF RowsOf
  <1>10. MarginRowsStand'
    BY <1>9 DEF LedgerInv, MarginRowsStand
  <1>11. OverrideRowsStand'
    <2> SUFFICES ASSUME NEW p \in Orgs, NEW q \in IssuedBy(p), q \notin drifted'
                 PROVE  \E act \in Acts :
                          RowsOf(q, "quote_override")' = {Row(p, q, "quote_override", act)}
      BY DEF OverrideRowsStand
    <2>1. CASE q \in seen
      <3>1. p = o /\ ~rebuild[b].overlapped
        BY <2>1, <1>1, <1>3, IssuedByFacts
      <3>2. RowsOf(q, "quote_override")' = {row \in anew : row.quote = q}
        BY <2>1, <3>1, <1>1, <1>3, <1>4 DEF RowsOf
      <3>3. QED
        BY <2>1, <3>1, <3>2, <1>4 DEF Acts
    <2>2. CASE q \notin seen
      <3>1. q \notin missed /\ q \notin drifted
        BY <2>2, <1>1
      <3>2. RowsOf(q, "quote_override")' = RowsOf(q, "quote_override")
        BY <2>2, <3>1, <1>1, <1>3, <1>4 DEF RowsOf
      <3>3. QED
        BY <3>1, <3>2 DEF LedgerInv, OverrideRowsStand
    <2>3. QED
      BY <2>1, <2>2
  <1>12. ASSUME NEW c \in Rebuilds, InProgress(c)'
         PROVE  KnowsItsQuotes(c)'
    <2>1. c # b /\ rebuild'[c] = rebuild[c]
      BY <1>1, <1>12, RebuildEnds DEF InProgress
    <2>2. InProgress(c) /\ KnowsItsQuotes(c) /\ Heard(c)' = Heard(c)
      BY <1>12, <2>1 DEF LedgerInv, RebuildsKnowTheirQuotes, InProgress, Heard
    <2>3. rebuild[c].org = o => rebuild[c].overlapped
      BY <1>2, <1>3, <2>1, <2>2 DEF LedgerInv, OverlapsAreKnown, Running, InProgress
    <2>4. rebuild[c].at = "deleted" /\ ~rebuild[c].overlapped => DoomsAllHeard(c)'
      <3> SUFFICES ASSUME rebuild[c].at = "deleted", ~rebuild[c].overlapped,
                          NEW row \in ledger', row.source = "quote_override", row.quote \in Heard(c)
                   PROVE  row \in rebuild[c].doomed
        BY <2>1, <2>2 DEF DoomsAllHeard
      <3>1. DoomsAllHeard(c) /\ Heard(c) \subseteq IssuedBy(rebuild[c].org)
        BY <2>2 DEF KnowsItsQuotes
      <3>2. row.quote \notin seen
        BY <2>3, <3>1, <1>3, IssuedByFacts
      <3>3. row \in ledger
        BY <3>2, <1>1, <1>4
      <3>4. QED
        BY <3>1, <3>3 DEF DoomsAllHeard
    <2>5. QED
      BY <2>1, <2>2, <2>4 DEF KnowsItsQuotes, KnowsAllQuotes, DoomsHeardOnly
  <1>13. QED
    BY <1>1, <1>7, <1>8, <1>10, <1>11, <1>12, RebuildEnds DEF LedgerInv, RebuildsKnowTheirQuotes

LEMMA LedgerInvStep ==
  ASSUME CatalogInv, LedgerInv, Next \/ UNCHANGED vars
  PROVE  LedgerInv'
  <1>1. ASSUME quotes' = quotes
        PROVE  \A p : IssuedBy(p)' = IssuedBy(p)
    BY <1>1 DEF IssuedBy, Issued
  <1>2. CASE UNCHANGED <<ledgerVars, quotes>>
    BY <1>1, <1>2, LedgerUntouched
  <1>3. ASSUME NEW q \in QuoteIds, UNCHANGED ledgerVars, quotes[q].at # "issued",
               NEW x, x.at # "issued", quotes' = [quotes EXCEPT ![q] = x]
        PROVE  LedgerInv'
    <2>1. \A p : IssuedBy(p)' = IssuedBy(p)
      BY <1>3, IssuedByFacts DEF IssuedBy, Issued, CatalogInv, StoresTypeOK
    <2>2. QED
      BY <1>3, <2>1, LedgerUntouched
  <1>4. ASSUME NEW q \in QuoteIds, NEW v \in TableVersions, Issue(q, v)
        PROVE  LedgerInv'
    <2> DEFINE o == quotes[q].org
    <2>1. quotes[q].at = "gated" /\ RecordIssue(o, q)
      BY <1>4 DEF Issue
    <2>2. IsAQuote(quotes[q]) /\ o \in Orgs /\ quotes = [s \in QuoteIds |-> quotes[s]]
      BY <2>1 DEF CatalogInv, QuotesRestOnStores, IsAQuote
    <2>3. PICK stamps, snapshot :
            quotes' = [quotes EXCEPT ![q] =
                         [@ EXCEPT !.at = "issued", !.stamps = stamps, !.snapshot = snapshot]]
      BY <1>4 DEF Issue
    <2>4. /\ quotes'[q].at = "issued" /\ quotes'[q].org = o
          /\ \A s \in QuoteIds : s # q => quotes'[s] = quotes[s]
      BY <2>2, <2>3 DEF IsAQuote
    <2> HIDE DEF o
    <2>5. \A p : q \notin IssuedBy(p)
      BY <2>1 DEF IssuedBy, Issued
    <2>6. \A p : IssuedBy(p)' = IF p = o THEN IssuedBy(p) \union {q} ELSE IssuedBy(p)
      BY <2>4, <2>5 DEF IssuedBy, Issued
    <2>7. QED
      BY <2>1, <2>2, <2>5, <2>6, RecordIssueKeeps
  <1>5. ASSUME RebuildsNext, UNCHANGED quotes
        PROVE  LedgerInv'
    <2>1. \A p : IssuedBy(p)' = IssuedBy(p) /\ IssuedBy(p) \subseteq QuoteIds
      BY <1>1, <1>5 DEF IssuedBy, Issued
    <2>2. QED
      BY <1>5, <2>1, RebuildReadKeeps, RebuildDeleteKeeps, RebuildCommitKeeps, RebuildFailsKeeps
         DEF RebuildsNext, RebuildStep
  <1>6. CASE QuotesNext
    <2>1. ASSUME NEW q \in QuoteIds, NEW o \in Orgs, NEW roster \in Rosters,
                 IssueGate(q, o, roster)
          PROVE  LedgerInv'
      <3>1. [NoQuote EXCEPT !.at = "gated", !.org = o, !.roster = roster].at # "issued"
        BY DEF NoQuote
      <3>2. quotes[q].at # "issued"
        BY <2>1 DEF IssueGate, NoQuote
      <3>3. QED
        BY <1>3, <2>1, <3>1, <3>2 DEF IssueGate
    <2>2. ASSUME NEW q \in QuoteIds, IssueFails(q)
          PROVE  LedgerInv'
      BY <1>3, <2>2 DEF IssueFails, NoQuote
    <2>3. QED
      BY <1>4, <1>6, <2>1, <2>2 DEF QuotesNext
  <1>7. CASE StoresNext
    BY <1>2, <1>7 DEF StoresNext, PublishCatalog, PublishRelease, PublishTable, Tick
  <1>8. QED
    BY <1>2, <1>5, <1>6, <1>7 DEF Next, vars

--------------------------------------------------------------------------------
(* The theorems.                                                           *)

(* The inductive invariant: what the requests know of the assignments they *)
(* have read, and what the quotes know of the stores they rest on.         *)
THEOREM CatalogInvariant == Spec => []CatalogInv
  <1>1. CatalogInv /\ [Next]_vars => CatalogInv'
    BY CatalogInvStep
  <1>2. QED
    BY InitCatalogInv, <1>1, PTL DEF Spec

(* A pin at a release that is not assigned was written by a request that   *)
(* had seen the assignment before unassign removed it.                     *)
THEOREM CatalogStrayPins == Spec => []StrayPinsHaveACause
  <1>1. CatalogInv => StrayPinsHaveACause
    BY DEF CatalogInv, ReleasesInv
  <1>2. QED
    BY CatalogInvariant, <1>1, PTL

(* No assignment, broadcast or retirement moves a pin: only the tenant's   *)
(* own pinVersion does.                                                    *)
THEOREM CatalogOptIn == Spec => UpgradesAreOptIn
  <1> DEFINE OptIn ==
        \A o \in Orgs, m \in Models :
          pin[o][m] # NoRelease /\ pin'[o][m] \notin {NoRelease, pin[o][m]} =>
            \E p \in Requests :
              /\ req[p].op = "pin_checked" /\ req[p].org = o
              /\ req[p].release = pin'[o][m] /\ req'[p] = Idle
  <1>1. CatalogInv /\ [Next]_vars => [OptIn]_releaseVars
    <2> SUFFICES ASSUME CatalogInv, [Next]_vars PROVE OptIn \/ UNCHANGED releaseVars
      OBVIOUS
    <2>1. CASE ReleasesNext
      BY <2>1, OptInStep DEF CatalogInv
    <2>2. ASSUME NEW r \in Releases, NEW c \in CatalogVersions, NEW k \in Contents,
                 PublishRelease(r, c, k)
          PROVE  OptIn
      BY <2>2 DEF PublishRelease, Publish
    <2>3. CASE StoresNext
      BY <2>2, <2>3 DEF StoresNext, PublishCatalog, PublishTable, Tick
    <2>4. CASE QuotesNext
      BY <2>4 DEF QuotesNext, IssueGate, Issue, IssueFails
    <2>5. QED
      BY <2>1, <2>3, <2>4 DEF Next, vars
  <1>2. QED
    BY CatalogInvariant, <1>1, PTL DEF Spec, UpgradesAreOptIn

(* A quote derives again for ever from the versions stamped on it.         *)
THEOREM CatalogReproduces == Spec => []IssuedQuotesReproduce
  <1>1. CatalogInv => IssuedQuotesReproduce
    BY DEF CatalogInv, QuotesRestOnStores, IssuedQuotesReproduce, Issued
  <1>2. QED
    BY CatalogInvariant, <1>1, PTL

(* A rebuild neither loses nor doubles a projected row, but for a quote    *)
(* that it missed or that another rebuild of the organization ran beside;  *)
(* and it never touches the authoritative rows.                            *)
THEOREM CatalogLedger == Spec => []LedgerDriftHasACause
  <1>1. CatalogInv /\ LedgerInv /\ [Next]_vars => LedgerInv'
    BY LedgerInvStep
  <1>2. ASSUME CatalogInv, LedgerInv, NEW q \in Issued
        PROVE  /\ Cardinality(RowsOf(q, "margin_override")) = 1
               /\ q \notin drifted => Cardinality(RowsOf(q, "quote_override")) = 1
    <2> DEFINE o == quotes[q].org
    <2>1. q \in IssuedBy(o) /\ o \in Orgs
      BY <1>2 DEF IssuedBy, Issued, CatalogInv, QuotesRestOnStores, IsAQuote
    <2>2. RowsOf(q, "margin_override") = {Row(o, q, "margin_override", "issue")}
      BY <2>1, <1>2 DEF LedgerInv, MarginRowsStand
    <2>3. q \notin drifted => \E row : RowsOf(q, "quote_override") = {row}
      BY <2>1, <1>2 DEF LedgerInv, OverrideRowsStand
    <2>4. QED
      BY <2>2, <2>3, FS_Singleton
  <1>3. CatalogInv /\ LedgerInv => LedgerDriftHasACause
    BY <1>2 DEF LedgerDriftHasACause, DriftHasACause
  <1>4. QED
    BY InitLedgerInv, CatalogInvariant, <1>1, <1>3, PTL DEF Spec
================================================================================
