----------------------- MODULE DatasetAdmissionProofs -----------------------
(***************************************************************************)
(* Proofs about AccessRegistry and DatasetAdmission, for every set of      *)
(* invites, accounts, threads, declarations, files, policies and evidence, *)
(* any inspection and any limit on decisions.                              *)
(***************************************************************************)
EXTENDS DatasetAdmission, TLAPS

-----------------------------------------------------------------------------
(* The access registry.  A call under way holds a code and a time; what    *)
(* the registry keeps of an invite is as issue_invite or activate_invite   *)
(* left it, and only invites it has issued have opened accounts.           *)
Calls == [code : Invites, current : InviteTimes]
IssuedInvites == [expires : InviteTimes, activated : InviteTimes \cup {Unused}]

AccessType ==
  /\ DOMAIN invites \subseteq Invites
  /\ \A v \in DOMAIN invites : invites[v] \in IssuedInvites
  /\ DOMAIN accounts \subseteq Accounts
  /\ activating \in [Threads -> Calls \cup {NoCall}]
  /\ granted \subseteq [invite : DOMAIN invites, account : DOMAIN accounts]

AccessInv == AccessType /\ OneAccountPerInvite

LEMMA AccessInitInv == AccessInit => AccessInv
BY DEF AccessInit, AccessInv, AccessType, OneAccountPerInvite

LEMMA IssueInvitePreserves ==
  ASSUME AccessInv, NEW v \in Invites, NEW expiry \in InviteTimes, NEW current \in InviteTimes,
         IssueInvite(v, expiry, current)
  PROVE  AccessInv'
<1>1. /\ DOMAIN invites' = DOMAIN invites \cup {v} /\ v \notin DOMAIN invites
      /\ invites'[v] = [expires |-> expiry, activated |-> Unused]
      /\ \A c \in DOMAIN invites : invites'[c] = invites[c]
      /\ UNCHANGED <<accounts, activating, granted>>
  BY DEF IssueInvite
<1>2. AccessType'
  BY <1>1 DEF AccessInv, AccessType, IssuedInvites
<1>3. OneAccountPerInvite'
  BY <1>1 DEF AccessInv, AccessType, OneAccountPerInvite
<1> QED BY <1>2, <1>3 DEF AccessInv

LEMMA ActivatePreserves ==
  ASSUME AccessInv, NEW t \in Threads, Activate(t)
  PROVE  AccessInv'
<1> DEFINE call == activating[t]
           code == call.code
<1>1. call \in Calls
  BY DEF Activate, AccessInv, AccessType
<1>2. /\ code \in DOMAIN invites /\ invites[code] \in IssuedInvites
      /\ invites[code].activated = Unused /\ call.current < invites[code].expires
  BY DEF Activate, Usable, AccessInv, AccessType
<1>3. PICK a \in Accounts \ DOMAIN accounts :
        /\ accounts' = [b \in DOMAIN accounts \cup {a} |->
                          IF b = a THEN call.current ELSE accounts[b]]
        /\ granted' = granted \cup {[invite |-> code, account |-> a]}
  BY DEF Activate
<1>4. /\ DOMAIN accounts' = DOMAIN accounts \cup {a} /\ accounts'[a] = call.current
      /\ \A b \in DOMAIN accounts : accounts'[b] = accounts[b]
  BY <1>3
<1>5. /\ DOMAIN invites' = DOMAIN invites
      /\ invites'[code] = [expires |-> invites[code].expires, activated |-> call.current]
      /\ \A v \in DOMAIN invites \ {code} : invites'[v] = invites[v]
  BY <1>2 DEF Activate, IssuedInvites
<1>6. call.current \in InviteTimes /\ call.current # Unused
  BY <1>1, UnusedAssumption, TimesAssumption DEF Calls
<1>7. AccessType'
  <2>1. activating' \in [Threads -> Calls \cup {NoCall}]
    BY DEF Activate, AccessInv, AccessType
  <2>2. granted' \subseteq [invite : DOMAIN invites', account : DOMAIN accounts']
    BY <1>2, <1>3, <1>4, <1>5 DEF AccessInv, AccessType
  <2>3. \A v \in DOMAIN invites' : invites'[v] \in IssuedInvites
    BY <1>2, <1>5, <1>6 DEF AccessInv, AccessType, IssuedInvites
  <2> QED BY <1>4, <1>5, <2>1, <2>2, <2>3 DEF AccessInv, AccessType
<1>8. \A g \in granted : g.invite # code /\ g.account # a /\ g.invite \in DOMAIN invites /\ g.account \in DOMAIN accounts
  BY <1>2, <1>3 DEF AccessInv, AccessType, OneAccountPerInvite
<1>9. OneAccountPerInvite'
  <2> DEFINE new == [invite |-> code, account |-> a]
  <2> USE DEF AccessInv, OneAccountPerInvite
  <2>1. DOMAIN accounts' = {g.account : g \in granted'}
    <3>1. {g.account : g \in granted \cup {new}} = {g.account : g \in granted} \cup {new.account}
      OBVIOUS
    <3> QED BY <1>3, <1>4, <3>1
  <2>2. \A g, h \in granted' : g.invite = h.invite <=> g.account = h.account
    BY <1>3, <1>8
  <2>3. \A v \in DOMAIN invites' :
          invites'[v].activated # Unused <=> v \in {g.invite : g \in granted'}
    <3>1. {g.invite : g \in granted \cup {new}} = {g.invite : g \in granted} \cup {new.invite}
      OBVIOUS
    <3>2. invites'[code].activated # Unused
      BY <1>5, <1>6
    <3> QED BY <1>3, <1>5, <3>1, <3>2
  <2>4. \A g \in granted' :
          /\ accounts'[g.account] = invites'[g.invite].activated
          /\ accounts'[g.account] < invites'[g.invite].expires
    BY <1>2, <1>3, <1>4, <1>5, <1>8
  <2> QED BY <2>1, <2>2, <2>3, <2>4
<1> QED BY <1>7, <1>9 DEF AccessInv

LEMMA AccessNext ==
  ASSUME AccessInv, [Next]_vars
  PROVE  AccessInv'
<1>1. ASSUME NEW v \in Invites, NEW expiry \in InviteTimes, NEW current \in InviteTimes,
             IssueInvite(v, expiry, current)
      PROVE  AccessInv'
  BY <1>1, IssueInvitePreserves
<1>2. ASSUME NEW t \in Threads, NEW v \in Invites, NEW current \in InviteTimes,
             ActivateBegin(t, v, current)
      PROVE  AccessInv'
  <2>1. activating' \in [Threads -> Calls \cup {NoCall}]
    BY <1>2 DEF ActivateBegin, AccessInv, AccessType, Calls
  <2> QED BY <1>2, <2>1 DEF ActivateBegin, AccessInv, AccessType, OneAccountPerInvite
<1>3. ASSUME NEW t \in Threads, Activate(t) PROVE AccessInv'
  BY <1>3, ActivatePreserves
<1>4. ASSUME NEW t \in Threads, ActivateRaises(t) PROVE AccessInv'
  <2>1. activating' \in [Threads -> Calls \cup {NoCall}]
    BY <1>4 DEF ActivateRaises, AccessInv, AccessType
  <2> QED BY <1>4, <2>1 DEF ActivateRaises, AccessInv, AccessType, OneAccountPerInvite
<1>5. ASSUME UNCHANGED accessVars PROVE AccessInv'
  BY <1>5 DEF accessVars, AccessInv, AccessType, OneAccountPerInvite
<1>6. CASE AccessStep
  BY <1>6, <1>1, <1>2, <1>3, <1>4 DEF AccessStep
<1>7. CASE \E c \in ActivatedContexts \cup Direct : AdmissionStep(c)
  BY <1>7, <1>5 DEF AdmissionStep
<1>8. CASE UNCHANGED vars
  BY <1>8, <1>5 DEF vars
<1> QED BY <1>6, <1>7, <1>8 DEF Next

(* However activations race, an invite opens at most one account and the   *)
(* account records when: activate_invite decides under the lock.           *)
THEOREM AccessSafe == Spec => []OneAccountPerInvite
<1>1. Init => AccessInv
  BY AccessInitInv DEF Init
<1>2. AccessInv /\ [Next]_vars => AccessInv'
  BY AccessNext
<1>3. AccessInv => OneAccountPerInvite
  BY DEF AccessInv
<1> QED BY <1>1, <1>2, <1>3, PTL DEF Spec

-----------------------------------------------------------------------------
(* Dataset admission.  The inductive invariant says of each record what    *)
(* it is, who owns what it holds, and why it is in its state.              *)
States == DOMAIN AllowedTransitions
Actors == Accounts \cup {c.account : c \in Direct}
Decisions == [state : States, actor : Actors, at : Times]
Inspections ==
  {[outcome |-> Inspect[f][p], file |-> f, under |-> p] : f \in Files, p \in Policies}
Records ==
  [declaration : Declarations, state : States, policy : Policies \cup {None},
   inspection : Inspections \cup {None},
   evidence : [data : DatasetEvidence, storage : StorageEvidence] \cup {None},
   decisions : Seq(Decisions)]

RecordOK(r) ==
  /\ r \in Records
  /\ Len(r.decisions) > 0
  /\ r.state = Latest(r).state

Owns(o, key, dataset) == key \in DOMAIN o /\ o[key] = dataset

(* What a record holds is entered under its dataset in the dictionaries.   *)
OwnsItsParts(o, r) ==
  LET d == r.declaration IN
  /\ Owns(o, FileKey(d), d.dataset)
  /\ Owns(o, SourceKey(d), d.dataset)
  /\ r.inspection # None =>
       Owns(o, WorkbookKey(d.tenant, r.inspection.outcome.workbook), d.dataset)
  /\ r.evidence # None =>
       \A key \in EvidenceKeys(d.tenant, r.evidence.data, r.evidence.storage) :
          Owns(o, key, d.dataset)

(* No key changes hands.                                                   *)
KeepsOwners == \A key \in DOMAIN owner : Owns(owner', key, owner[key])

(* The inspection of a validated record is of its file, under the policy   *)
(* of the record, and found the file clean.                                *)
ValidatedOnFile(r) ==
  /\ r.inspection.file = r.declaration.file
  /\ r.inspection.under = r.policy
  /\ r.inspection.outcome = Inspect[r.declaration.file][r.policy]
  /\ Inspect[r.declaration.file][r.policy].clean

(* The first half of AdmittedOnEvidence, of one record.                    *)
AdmittedWith(r, v, a) ==
  /\ v < a /\ r.decisions[v].state = "VALIDATED" /\ r.decisions[a].state = "ADMITTED"
  /\ r.inspection.file = r.declaration.file
  /\ {r.inspection.under, r.evidence.data.policy} = {r.policy}
  /\ Inspect[r.declaration.file][r.policy].clean
  /\ r.declaration.uploader \notin {r.evidence.data.verifier, r.evidence.storage.verifier}
  /\ {r.evidence.data.verified, r.evidence.storage.verified}
       \subseteq r.decisions[v].at .. r.decisions[a].at

Justified(r) ==
  /\ r.state = "VALIDATED" => ValidatedOnFile(r)
  /\ r.state \in {"ADMITTED", "REVOKED"} =>
       \E v, a \in DOMAIN r.decisions : AdmittedWith(r, v, a)

AdmissionInv ==
  \A k \in DOMAIN records :
    /\ RecordOK(records[k])
    /\ k = Key(records[k].declaration)
    /\ OwnsItsParts(owner, records[k])
    /\ Justified(records[k])

-----------------------------------------------------------------------------
(* What the helpers of the registry do.                                    *)

LEMMA SavesFacts ==
  ASSUME NEW key, NEW r, Saves(key, r)
  PROVE  /\ DOMAIN records' = DOMAIN records \cup {key}
         /\ records'[key] = r
         /\ \A k \in DOMAIN records : k # key => records'[k] = records[k]
BY DEF Saves

(* A claim on keys that are free takes nothing from their owners.          *)
LEMMA ClaimsFacts ==
  ASSUME NEW keys, NEW dataset, Claims(keys, dataset),
         \A key \in keys : FreeFor(key, dataset)
  PROVE  /\ \A key \in keys : Owns(owner', key, dataset)
         /\ KeepsOwners
BY DEF Claims, FreeFor, Owns, KeepsOwners

LEMMA DecidesFacts ==
  ASSUME NEW r \in Records, NEW s \in States, NEW c, c.account \in Actors, NEW at \in Times
  PROVE  LET q == Decides(r, s, c, at) IN
         /\ q \in Records
         /\ q.state = s
         /\ q.declaration = r.declaration /\ q.policy = r.policy
         /\ q.inspection = r.inspection /\ q.evidence = r.evidence
         /\ q.decisions = Append(r.decisions, Decision(s, c, at))
         /\ Len(q.decisions) = Len(r.decisions) + 1
         /\ Latest(q) = Decision(s, c, at)
         /\ \A i \in 1 .. Len(r.decisions) : q.decisions[i] = r.decisions[i]
<1> DEFINE q == Decides(r, s, c, at)
<1>1. Decision(s, c, at) \in Decisions
  BY DEF Decision, Decisions
<1>2. /\ r.decisions \in Seq(Decisions)
      /\ Append(r.decisions, Decision(s, c, at)) \in Seq(Decisions)
  BY <1>1 DEF Records
<1>3. /\ q = [r EXCEPT !.state = s, !.decisions = Append(r.decisions, Decision(s, c, at))]
      /\ q \in Records /\ q.state = s
      /\ q.declaration = r.declaration /\ q.policy = r.policy
      /\ q.inspection = r.inspection /\ q.evidence = r.evidence
      /\ q.decisions = Append(r.decisions, Decision(s, c, at))
  BY <1>2 DEF Decides, Records
<1>4. Len(q.decisions) = Len(r.decisions) + 1
  BY <1>2, <1>3
<1>5. /\ Latest(q) = Decision(s, c, at)
      /\ \A i \in 1 .. Len(r.decisions) : q.decisions[i] = r.decisions[i]
  BY <1>2, <1>3, <1>4 DEF Latest
<1> QED BY <1>3, <1>4, <1>5

(* What a record owns, it owns after a step that takes nothing.            *)
LEMMA PartsStayOwned ==
  ASSUME NEW r, OwnsItsParts(owner, r), KeepsOwners
  PROVE  OwnsItsParts(owner', r)
<1>1. \A key, i : Owns(owner, key, i) => Owns(owner', key, i)
  BY DEF Owns, KeepsOwners
<1> QED BY <1>1, Zenon DEF OwnsItsParts

(* It is enough to look at the record a call saves.                        *)
LEMMA SavedRecord ==
  ASSUME AdmissionInv, NEW r, Saves(Key(r.declaration), r), KeepsOwners,
         RecordOK(r), OwnsItsParts(owner', r), Justified(r)
  PROVE  AdmissionInv'
<1> SUFFICES ASSUME NEW k \in DOMAIN records'
             PROVE  /\ RecordOK(records'[k])
                    /\ k = Key(records'[k].declaration)
                    /\ OwnsItsParts(owner', records'[k])
                    /\ Justified(records'[k])
  BY DEF AdmissionInv
<1>1. CASE k = Key(r.declaration)
  BY <1>1, SavesFacts, Zenon
<1>2. CASE k # Key(r.declaration)
  <2>1. k \in DOMAIN records /\ records'[k] = records[k]
    BY <1>2 DEF Saves
  <2>2. OwnsItsParts(owner', records[k])
    BY <2>1, PartsStayOwned DEF AdmissionInv
  <2> QED BY <2>1, <2>2 DEF AdmissionInv
<1> QED BY <1>1, <1>2

(* A caller's account is an actor.                                         *)
LEMMA CallerActs ==
  ASSUME AccessInv, NEW c \in ActivatedContexts \cup Direct
  PROVE  c.account \in Actors
<1>1. CASE c \in Direct
  BY <1>1 DEF Actors
<1>2. CASE c \in ActivatedContexts
  BY <1>2 DEF ActivatedContexts, ContextOf, Actors, AccessInv, AccessType
<1> QED BY <1>1, <1>2

LEMMA DeclarePreserves ==
  ASSUME AdmissionInv, NEW c, c.account \in Actors, NEW d \in Declarations, Declare(c, d)
  PROVE  AdmissionInv'
<1> DEFINE r == [declaration |-> d, state |-> "DECLARED", policy |-> None,
                 inspection |-> None, evidence |-> None,
                 decisions |-> <<Decision("DECLARED", c, d.declared)>>]
<1>1. /\ Saves(Key(r.declaration), r)
      /\ Claims({FileKey(d), SourceKey(d)}, d.dataset)
      /\ \A key \in {FileKey(d), SourceKey(d)} : FreeFor(key, d.dataset)
  BY DEF Declare
<1>2. /\ \A key \in {FileKey(d), SourceKey(d)} : Owns(owner', key, d.dataset)
      /\ KeepsOwners
  BY <1>1 DEF Claims, FreeFor, Owns, KeepsOwners
<1>3. RecordOK(r)
  <2>1. Decision("DECLARED", c, d.declared) \in Decisions
    BY TimesAssumption DEF Decision, Decisions, States, AllowedTransitions
  <2>2. r.decisions \in Seq(Decisions) /\ Len(r.decisions) = 1 /\ r.decisions[1].state = "DECLARED"
    BY <2>1 DEF Decision
  <2> QED BY <2>2 DEF RecordOK, Records, Latest, States, AllowedTransitions
<1>4. OwnsItsParts(owner', r)
  BY <1>2 DEF OwnsItsParts
<1>5. Justified(r)
  BY DEF Justified
<1> QED BY <1>1, <1>2, <1>3, <1>4, <1>5, SavedRecord, Zenon

(* A record a call looks up.                                               *)
LEMMA FoundFacts ==
  ASSUME AdmissionInv, NEW c, NEW dataset, Found(c, dataset)
  PROVE  LET k == <<c.tenant, dataset>> IN
         /\ k \in DOMAIN records
         /\ RecordOK(records[k]) /\ records[k] \in Records
         /\ k = Key(records[k].declaration)
         /\ records[k].declaration.tenant = c.tenant
         /\ records[k].declaration.dataset = dataset
         /\ records[k].declaration.uploader = c.account
         /\ OwnsItsParts(owner, records[k])
         /\ Justified(records[k])
BY DEF AdmissionInv, Found, RecordOK, Key

LEMMA RevokePreserves ==
  ASSUME AdmissionInv, NEW c, c.account \in Actors, NEW dataset, NEW at \in Times,
         Revoke(c, dataset, at)
  PROVE  AdmissionInv'
<1> DEFINE r == records[<<c.tenant, dataset>>]
           q == Decides(r, "REVOKED", c, at)
<1>1. /\ Found(c, dataset) /\ r.state = "ADMITTED"
      /\ Saves(<<c.tenant, dataset>>, q) /\ owner' = owner
  BY DEF Revoke
<1>2. /\ <<c.tenant, dataset>> = Key(r.declaration)
      /\ RecordOK(r) /\ r \in Records
      /\ OwnsItsParts(owner, r) /\ Justified(r)
  BY <1>1, FoundFacts
<1> HIDE DEF r
<1>3. /\ q \in Records
      /\ q.state = "REVOKED"
      /\ q.declaration = r.declaration /\ q.policy = r.policy
      /\ q.inspection = r.inspection /\ q.evidence = r.evidence
      /\ Len(q.decisions) = Len(r.decisions) + 1
      /\ Latest(q) = Decision("REVOKED", c, at)
      /\ \A i \in 1 .. Len(r.decisions) : q.decisions[i] = r.decisions[i]
  <2>1. "REVOKED" \in States
    BY DEF States, AllowedTransitions
  <2> QED BY <1>2, <2>1, DecidesFacts
<1> HIDE DEF q
<1>4. r.decisions \in Seq(Decisions) /\ q.decisions \in Seq(Decisions)
  BY <1>2, <1>3 DEF Records
<1>5. RecordOK(q)
  BY <1>2, <1>3, <1>4 DEF RecordOK, Decision
<1>6. OwnsItsParts(owner', q) /\ KeepsOwners
  BY <1>1, <1>2, <1>3 DEF OwnsItsParts, KeepsOwners, Owns
<1>7. Justified(q)
  <2>1. PICK v, a \in DOMAIN r.decisions : AdmittedWith(r, v, a)
    BY <1>1, <1>2 DEF Justified
  <2>2. v \in DOMAIN q.decisions /\ a \in DOMAIN q.decisions
    BY <1>3, <1>4
  <2>3. q.decisions[v] = r.decisions[v] /\ q.decisions[a] = r.decisions[a]
    BY <1>3, <1>4
  <2>4. AdmittedWith(q, v, a)
    BY <1>3, <2>1, <2>3, Zenon DEF AdmittedWith
  <2> QED BY <1>3, <2>2, <2>4 DEF Justified
<1>8. Saves(Key(q.declaration), q)
  BY <1>1, <1>2, <1>3, Zenon
<1> QED BY <1>5, <1>6, <1>7, <1>8, SavedRecord, Zenon

LEMMA AdmitPreserves ==
  ASSUME AdmissionInv, NEW c, c.account \in Actors, NEW dataset, NEW at \in Times,
         NEW e \in DatasetEvidence, NEW s \in StorageEvidence, Admit(c, dataset, e, s, at)
  PROVE  AdmissionInv'
<1> DEFINE r == records[<<c.tenant, dataset>>]
           p == Decides(r, "ADMITTED", c, at)
           q == [p EXCEPT !.evidence = [data |-> e, storage |-> s]]
           keys == EvidenceKeys(c.tenant, e, s)
<1>1. /\ Found(c, dataset) /\ r.state = "VALIDATED" /\ Binds(r, e, s) /\ Timely(r, e, s, at)
      /\ Saves(<<c.tenant, dataset>>, q) /\ Claims(keys, dataset)
      /\ \A key \in keys : FreeFor(key, dataset)
  BY DEF Admit
<1>2. /\ <<c.tenant, dataset>> = Key(r.declaration)
      /\ r.declaration.tenant = c.tenant /\ r.declaration.dataset = dataset
      /\ RecordOK(r) /\ r \in Records
      /\ OwnsItsParts(owner, r) /\ Justified(r)
  BY <1>1, FoundFacts
<1> HIDE DEF r, keys
<1>3. /\ p \in Records
      /\ p.state = "ADMITTED"
      /\ p.declaration = r.declaration /\ p.policy = r.policy /\ p.inspection = r.inspection
      /\ Len(p.decisions) = Len(r.decisions) + 1
      /\ Latest(p) = Decision("ADMITTED", c, at)
      /\ \A i \in 1 .. Len(r.decisions) : p.decisions[i] = r.decisions[i]
  <2>1. "ADMITTED" \in States
    BY DEF States, AllowedTransitions
  <2> QED BY <1>2, <2>1, DecidesFacts
<1> HIDE DEF p
<1>4. /\ q \in Records
      /\ q.state = "ADMITTED" /\ q.declaration = r.declaration /\ q.policy = r.policy
      /\ q.inspection = r.inspection /\ q.decisions = p.decisions
      /\ q.evidence = [data |-> e, storage |-> s]
  BY <1>3 DEF Records
<1> HIDE DEF q
<1>5. r.decisions \in Seq(Decisions) /\ q.decisions \in Seq(Decisions)
  BY <1>2, <1>4 DEF Records
<1>6. RecordOK(q)
  BY <1>2, <1>3, <1>4, <1>5 DEF RecordOK, Decision, Latest
<1>7. KeepsOwners /\ \A key \in keys : Owns(owner', key, dataset)
  BY <1>1, ClaimsFacts
<1>8. OwnsItsParts(owner', q)
  <2>1. OwnsItsParts(owner', r)
    BY <1>2, <1>7, PartsStayOwned
  <2>2. EvidenceKeys(q.declaration.tenant, q.evidence.data, q.evidence.storage) = keys
    BY <1>2, <1>4 DEF keys
  <2> QED BY <1>2, <1>4, <1>7, <2>1, <2>2, Zenon DEF OwnsItsParts
<1>9. Justified(q)
  <2> DEFINE v == Len(r.decisions)
  <2>1. v \in DOMAIN q.decisions /\ v + 1 \in DOMAIN q.decisions /\ v < v + 1
    BY <1>2, <1>3, <1>4, <1>5 DEF RecordOK
  <2>2. q.decisions[v] = Latest(r) /\ q.decisions[v + 1] = Decision("ADMITTED", c, at)
    BY <1>2, <1>3, <1>4, <1>5 DEF RecordOK, Latest
  <2>3. /\ q.decisions[v].state = "VALIDATED" /\ q.decisions[v + 1].state = "ADMITTED"
        /\ q.decisions[v + 1].at = at
    BY <1>1, <1>2, <2>2 DEF RecordOK, Decision
  <2>4. ValidatedOnFile(r)
    BY <1>1, <1>2 DEF Justified
  <2>5. {q.evidence.data.verified, q.evidence.storage.verified}
          \subseteq q.decisions[v].at .. q.decisions[v + 1].at
    BY <1>1, <1>4, <2>2, <2>3 DEF Timely
  <2>6. /\ q.inspection.file = q.declaration.file
        /\ {q.inspection.under, q.evidence.data.policy} = {q.policy}
        /\ Inspect[q.declaration.file][q.policy].clean
        /\ q.declaration.uploader
             \notin {q.evidence.data.verifier, q.evidence.storage.verifier}
    BY <1>1, <1>4, <2>4 DEF Binds, ValidatedOnFile
  <2>7. AdmittedWith(q, v, v + 1)
    BY <2>1, <2>3, <2>5, <2>6 DEF AdmittedWith
  <2> QED BY <1>4, <2>1, <2>7 DEF Justified
<1>10. Saves(Key(q.declaration), q)
  BY <1>1, <1>2, <1>4, Zenon DEF q
<1> QED BY <1>6, <1>7, <1>8, <1>9, <1>10, SavedRecord, Zenon

(* What an examination begins with, and what it may end with.              *)
LEMMA QuarantinedFacts ==
  ASSUME NEW r \in Records, NEW c, c.account \in Actors, NEW policy \in Policies, NEW at \in Times
  PROVE  LET q == Quarantined(r, c, policy, at) IN
         /\ q \in Records
         /\ q.declaration = r.declaration /\ q.policy = policy
         /\ q.inspection = r.inspection /\ q.evidence = r.evidence
         /\ q.decisions = IF r.state = "DECLARED"
                          THEN Append(r.decisions, Decision("QUARANTINED", c, at))
                          ELSE r.decisions
<1>1. "QUARANTINED" \in States
  BY DEF States, AllowedTransitions
<1>2. CASE r.state = "DECLARED"
  <2> DEFINE p == Decides(r, "QUARANTINED", c, at)
  <2>1. /\ p \in Records
        /\ p.declaration = r.declaration
        /\ p.inspection = r.inspection /\ p.evidence = r.evidence
        /\ p.decisions = Append(r.decisions, Decision("QUARANTINED", c, at))
    BY <1>1, DecidesFacts
  <2>2. Quarantined(r, c, policy, at) = [p EXCEPT !.policy = policy]
    BY <1>2 DEF Quarantined
  <2> HIDE DEF p
  <2> QED BY <1>2, <2>1, <2>2 DEF Records
<1>3. CASE r.state # "DECLARED"
  BY <1>3 DEF Quarantined, Records
<1> QED BY <1>2, <1>3

LEMMA ExaminedFacts ==
  ASSUME NEW d, NEW file \in Files, NEW policy \in Policies
  PROVE  LET result == Examined(d, file, policy) IN
         /\ result.state \in States \ {"DECLARED", "ADMITTED", "REVOKED"}
         /\ result.keeps \in BOOLEAN
         /\ ~result.keeps => result.state = "REJECTED"
         /\ result.keeps =>
              /\ result.inspection \in Inspections
              /\ result.inspection.outcome = Inspect[d.file][policy]
              /\ result.inspection.file = d.file
              /\ result.inspection.under = policy
              /\ result.workbook = WorkbookKey(d.tenant, result.inspection.outcome.workbook)
              /\ FreeFor(result.workbook, d.dataset)
              /\ result.state \in {"VALIDATED", "QUARANTINED"}
              /\ result.state = "VALIDATED" => Inspect[d.file][policy].clean
<1> DEFINE outcome == Inspect[file][policy]
           inspection == [outcome |-> outcome, file |-> file, under |-> policy]
           workbook == WorkbookKey(d.tenant, outcome.workbook)
           result == Examined(d, file, policy)
<1>0. {"QUARANTINED", "VALIDATED", "REJECTED"} \subseteq States
  BY DEF States, AllowedTransitions
<1>1. CASE file # d.file \/ outcome = InspectionFails \/ ~FreeFor(workbook, d.dataset)
  <2>1. result = [state |-> "REJECTED", keeps |-> FALSE]
    BY <1>1 DEF Examined
  <2> QED BY <1>0, <2>1
<1>2. CASE ~(file # d.file \/ outcome = InspectionFails \/ ~FreeFor(workbook, d.dataset))
  <2>1. /\ result.state = IF outcome.clean /\ d.rows \in {None, outcome.rows}
                          THEN "VALIDATED" ELSE "QUARANTINED"
        /\ result.keeps = TRUE
        /\ result.inspection = inspection
        /\ result.workbook = workbook
    BY <1>2 DEF Examined
  <2>2. inspection \in Inspections
    BY DEF Inspections
  <2>3. /\ inspection.outcome = Inspect[d.file][policy] /\ inspection.file = d.file
        /\ inspection.under = policy
    BY <1>2
  <2>4. workbook = WorkbookKey(d.tenant, inspection.outcome.workbook)
    OBVIOUS
  <2>5. /\ result.state \in {"VALIDATED", "QUARANTINED"}
        /\ result.state = "VALIDATED" => Inspect[d.file][policy].clean
    BY <1>2, <2>1
  <2> HIDE DEF inspection, workbook
  <2> QED BY <1>0, <1>2, <2>1, <2>2, <2>3, <2>4, <2>5
<1> QED BY <1>1, <1>2

LEMMA InspectPreserves ==
  ASSUME AdmissionInv, NEW c, c.account \in Actors, NEW dataset, NEW file \in Files,
         NEW policy \in Policies, NEW at \in Times,
         InspectAndValidate(c, dataset, file, policy, at)
  PROVE  AdmissionInv'
<1> DEFINE r == records[<<c.tenant, dataset>>]
           result == Examined(r.declaration, file, policy)
           p == Quarantined(r, c, policy, at)
           q == Decides(p, result.state, c, at)
<1>1. /\ Found(c, dataset)
      /\ \/ ~result.keeps /\ Saves(<<c.tenant, dataset>>, q) /\ UNCHANGED owner
         \/ /\ result.keeps
            /\ Saves(<<c.tenant, dataset>>, [q EXCEPT !.inspection = result.inspection])
            /\ Claims({result.workbook}, dataset)
  BY DEF InspectAndValidate
<1>2. /\ <<c.tenant, dataset>> = Key(r.declaration)
      /\ r.declaration.dataset = dataset
      /\ RecordOK(r) /\ r \in Records
      /\ OwnsItsParts(owner, r) /\ Justified(r)
  BY <1>1, FoundFacts
<1> HIDE DEF r
<1>3. /\ p \in Records
      /\ p.declaration = r.declaration /\ p.policy = policy
      /\ p.inspection = r.inspection /\ p.evidence = r.evidence
  BY <1>2, QuarantinedFacts
<1>4. /\ result.state \in States \ {"DECLARED", "ADMITTED", "REVOKED"}
      /\ ~result.keeps => result.state = "REJECTED"
      /\ result.keeps =>
           /\ result.inspection \in Inspections
           /\ result.inspection.outcome = Inspect[r.declaration.file][policy]
           /\ result.inspection.file = r.declaration.file
           /\ result.inspection.under = policy
           /\ result.workbook = WorkbookKey(r.declaration.tenant, result.inspection.outcome.workbook)
           /\ FreeFor(result.workbook, r.declaration.dataset)
           /\ result.state = "VALIDATED" => Inspect[r.declaration.file][policy].clean
  BY ExaminedFacts
<1> HIDE DEF p, result
<1>5. /\ q \in Records
      /\ q.state = result.state
      /\ q.declaration = r.declaration /\ q.policy = policy
      /\ q.inspection = r.inspection /\ q.evidence = r.evidence
      /\ Len(q.decisions) = Len(p.decisions) + 1
      /\ Latest(q) = Decision(result.state, c, at)
  BY <1>3, <1>4, DecidesFacts
<1> HIDE DEF q
<1>6. Len(q.decisions) > 0
  BY <1>3, <1>5 DEF Records
<1>7. CASE ~result.keeps
  <2>1. Saves(Key(q.declaration), q) /\ owner' = owner
    BY <1>1, <1>2, <1>5, <1>7
  <2>2. RecordOK(q)
    BY <1>5, <1>6 DEF RecordOK, Decision
  <2>3. OwnsItsParts(owner', q) /\ KeepsOwners
    BY <1>2, <1>5, <2>1 DEF OwnsItsParts, KeepsOwners, Owns
  <2>4. Justified(q)
    BY <1>4, <1>5, <1>7 DEF Justified
  <2> QED BY <2>1, <2>2, <2>3, <2>4, SavedRecord, Zenon
<1>8. CASE result.keeps
  <2> DEFINE w == [q EXCEPT !.inspection = result.inspection]
  <2>1. /\ w \in Records
        /\ w.state = result.state /\ w.decisions = q.decisions
        /\ w.declaration = r.declaration /\ w.policy = policy
        /\ w.inspection = result.inspection /\ w.evidence = r.evidence
    BY <1>4, <1>5, <1>8 DEF Records
  <2>2. /\ Saves(Key(w.declaration), w)
        /\ Claims({result.workbook}, r.declaration.dataset)
    BY <1>1, <1>2, <1>8, <2>1, Zenon
  <2> HIDE DEF w
  <2>3. RecordOK(w)
    BY <1>5, <1>6, <2>1 DEF RecordOK, Decision, Latest
  <2>4. KeepsOwners /\ Owns(owner', result.workbook, r.declaration.dataset)
    BY <1>4, <1>8, <2>2 DEF Claims, FreeFor, Owns, KeepsOwners
  <2>5. OwnsItsParts(owner', w)
    <3>1. OwnsItsParts(owner', r)
      BY <1>2, <2>4, PartsStayOwned
    <3>2. Owns(owner', WorkbookKey(w.declaration.tenant, w.inspection.outcome.workbook),
               w.declaration.dataset)
      BY <1>4, <1>8, <2>1, <2>4
    <3> QED BY <2>1, <3>1, <3>2, Zenon DEF OwnsItsParts
  <2>6. Justified(w)
    BY <1>4, <1>8, <2>1 DEF Justified, ValidatedOnFile
  <2> QED BY <2>2, <2>3, <2>4, <2>5, <2>6, SavedRecord, Zenon
<1> QED BY <1>1, <1>7, <1>8

LEMMA AdmissionNext ==
  ASSUME AccessInv, AdmissionInv, [Next]_vars
  PROVE  AdmissionInv'
<1>1. ASSUME NEW c \in ActivatedContexts \cup Direct, AdmissionStep(c)
      PROVE  AdmissionInv'
  <2>0. c.account \in Actors
    BY <1>1, CallerActs
  <2>1. ASSUME NEW d \in Declarations, Declare(c, d) PROVE AdmissionInv'
    BY <2>0, <2>1, DeclarePreserves
  <2>2. ASSUME NEW i \in Datasets, NEW file \in Files, NEW policy \in Policies, NEW at \in Times,
               InspectAndValidate(c, i, file, policy, at)
        PROVE  AdmissionInv'
    BY <2>0, <2>2, InspectPreserves
  <2>3. ASSUME NEW i \in Datasets, NEW e \in DatasetEvidence, NEW s \in StorageEvidence,
               NEW at \in Times, Admit(c, i, e, s, at)
        PROVE  AdmissionInv'
    BY <2>0, <2>3, AdmitPreserves
  <2>4. ASSUME NEW i \in Datasets, NEW at \in Times, Revoke(c, i, at) PROVE AdmissionInv'
    BY <2>0, <2>4, RevokePreserves
  <2> QED BY <1>1, <2>1, <2>2, <2>3, <2>4, Zenon DEF AdmissionStep
<1>2. ASSUME UNCHANGED admissionVars PROVE AdmissionInv'
  <2>1. records' = records /\ owner' = owner
    BY <1>2 DEF admissionVars
  <2> QED BY <2>1 DEF AdmissionInv
<1> QED BY <1>1, <1>2 DEF Next, AccessStep, vars

LEMMA AdmissionSafety == Spec => [](AccessInv /\ AdmissionInv)
<1>1. Init => AccessInv /\ AdmissionInv
  BY AccessInitInv DEF Init, AdmissionInv
<1>2. AccessInv /\ AdmissionInv /\ [Next]_vars => AccessInv' /\ AdmissionInv'
  BY AccessNext, AdmissionNext
<1> QED BY <1>1, <1>2, PTL DEF Spec

(* No two datasets of a tenant hold the same file, source, workbook or     *)
(* evidence: what a record holds is entered under its dataset alone, and   *)
(* a call enters nothing over another's entry (declare,                    *)
(* _claim_workbook_digest, finalize_validated_record).                     *)
THEOREM AdmittedOnce == Spec => []EachAdmittedOnce
<1>1. ASSUME AdmissionInv PROVE EachAdmittedOnce
  <2> SUFFICES ASSUME NEW k \in DOMAIN records, NEW m \in DOMAIN records, k[1] = m[1], k # m
               PROVE  LET r == records[k]
                          q == records[m]
                      IN  /\ r.declaration.file # q.declaration.file
                          /\ SourceKey(r.declaration) # SourceKey(q.declaration)
                          /\ r.inspection # None /\ q.inspection # None =>
                               r.inspection.outcome.workbook # q.inspection.outcome.workbook
                          /\ r.evidence # None /\ q.evidence # None =>
                               /\ r.evidence.data.id # q.evidence.data.id
                               /\ r.evidence.storage.id # q.evidence.storage.id
    BY DEF EachAdmittedOnce
  <2> DEFINE r == records[k]
             q == records[m]
  <2>1. /\ k = <<r.declaration.tenant, r.declaration.dataset>>
        /\ m = <<q.declaration.tenant, q.declaration.dataset>>
        /\ OwnsItsParts(owner, r) /\ OwnsItsParts(owner, q)
    BY <1>1 DEF AdmissionInv, Key
  <2> HIDE DEF r, q
  <2>2. /\ r.declaration.tenant = q.declaration.tenant
        /\ r.declaration.dataset # q.declaration.dataset
    BY <2>1
  <2>3. \A key : ~(Owns(owner, key, r.declaration.dataset) /\ Owns(owner, key, q.declaration.dataset))
    BY <2>2 DEF Owns
  <2>4. r.declaration.file # q.declaration.file
    BY <2>1, <2>2, <2>3 DEF OwnsItsParts, FileKey
  <2>5. SourceKey(r.declaration) # SourceKey(q.declaration)
    BY <2>1, <2>2, <2>3 DEF OwnsItsParts
  <2>6. r.inspection # None /\ q.inspection # None =>
          r.inspection.outcome.workbook # q.inspection.outcome.workbook
    BY <2>1, <2>2, <2>3 DEF OwnsItsParts
  <2>7. r.evidence # None /\ q.evidence # None =>
          /\ r.evidence.data.id # q.evidence.data.id
          /\ r.evidence.storage.id # q.evidence.storage.id
    BY <2>1, <2>2, <2>3 DEF OwnsItsParts, EvidenceKeys
  <2> QED BY <2>4, <2>5, <2>6, <2>7 DEF r, q
<1> QED BY <1>1, AdmissionSafety, PTL

(* Every admission rests on a validation of the dataset's own file under   *)
(* the record's policy and on timely evidence of others, and admitted data *)
(* is read by its uploader in its retention period only                    *)
(* (inspect_and_validate, admit, require_admitted).                        *)
THEOREM AdmissionJustified == Spec => []AdmittedOnEvidence
<1>1. ASSUME AdmissionInv PROVE AdmittedOnEvidence
  <2>1. \A k \in DOMAIN records :
          records[k].state \in {"ADMITTED", "REVOKED"} =>
            \E v, a \in DOMAIN records[k].decisions : AdmittedWith(records[k], v, a)
    BY <1>1 DEF AdmissionInv, Justified
  <2>2. ASSUME NEW c \in ActivatedContexts \cup Direct, NEW i \in Datasets, NEW t \in Times,
               MayRead(c, i, t)
        PROVE  LET r == records[<<c.tenant, i>>] IN
               /\ r.declaration.uploader = c.account
               /\ t \in Latest(r).at .. r.declaration.retention - 1
    <3> DEFINE r == records[<<c.tenant, i>>]
    <3>1. /\ r \in Records /\ RecordOK(r) /\ r.declaration.uploader = c.account
      BY <1>1, <2>2, FoundFacts DEF MayRead
    <3>2. t >= Latest(r).at /\ t < r.declaration.retention
      BY <2>2 DEF MayRead
    <3> HIDE DEF r
    <3>3. r.decisions \in Seq(Decisions) /\ Len(r.decisions) > 0
      BY <3>1 DEF Records, RecordOK
    <3>4. Latest(r) \in Decisions
      BY <3>3 DEF Latest
    <3>5. Latest(r).at \in Int /\ r.declaration.retention \in Int /\ t \in Int
      BY <3>1, <3>4, TimesAssumption DEF Decisions, Records
    <3> QED BY <3>1, <3>2, <3>5 DEF r
  <2> QED BY <2>1, <2>2, Zenon DEF AdmittedOnEvidence, AdmittedWith
<1> QED BY <1>1, AdmissionSafety, PTL

-----------------------------------------------------------------------------
(* HistoryStands: how the record a call saves continues the one it found.  *)
Continues(r, q) ==
  LET n == Len(r.decisions)
      new == q.decisions
  IN  /\ q.declaration = r.declaration
      /\ SubSeq(new, 1, n) = r.decisions
      /\ \A i \in n + 1 .. Len(new) :
           /\ new[i].actor = r.declaration.uploader
           /\ new[i].at >= new[i - 1].at
           /\ \/ new[i].state \in AllowedTransitions[new[i - 1].state]
              \/ new[i].state = "QUARANTINED" /\ new[i - 1].state = "QUARANTINED"

HistoryContinues == \A k \in DOMAIN records : Continues(records[k], records'[k])

(* The decision x of the actor u may follow the decision w.                *)
MayFollow(w, x, u) ==
  /\ x.actor = u
  /\ x.at >= w.at
  /\ \/ x.state \in AllowedTransitions[w.state]
     \/ x.state = "QUARANTINED" /\ w.state = "QUARANTINED"

LEMMA ContinuesSelf ==
  ASSUME NEW r, RecordOK(r)
  PROVE  Continues(r, r)
<1>1. r.decisions \in Seq(Decisions)
  BY DEF RecordOK, Records
<1>2. SubSeq(r.decisions, 1, Len(r.decisions)) = r.decisions
  BY <1>1
<1>3. \A i : i \notin Len(r.decisions) + 1 .. Len(r.decisions)
  BY <1>1
<1> QED BY <1>2, <1>3 DEF Continues

LEMMA ContinuesByOne ==
  ASSUME NEW r, RecordOK(r), NEW q, q.declaration = r.declaration, NEW x \in Decisions,
         q.decisions = Append(r.decisions, x),
         MayFollow(Latest(r), x, r.declaration.uploader)
  PROVE  Continues(r, q)
<1> DEFINE n == Len(r.decisions)
           new == q.decisions
<1>1. r.decisions \in Seq(Decisions) /\ n \in Nat /\ n > 0
  BY DEF RecordOK, Records
<1>2. /\ Len(new) = n + 1 /\ new[n + 1] = x /\ new[n] = Latest(r)
      /\ SubSeq(new, 1, n) = r.decisions
  BY <1>1 DEF Latest
<1>3. \A i \in n + 1 .. Len(new) : i = n + 1 /\ i - 1 = n
  BY <1>1, <1>2
<1> QED BY <1>2, <1>3 DEF Continues, MayFollow

LEMMA ContinuesByTwo ==
  ASSUME NEW r, RecordOK(r), NEW q, q.declaration = r.declaration,
         NEW x \in Decisions, NEW y \in Decisions,
         q.decisions = Append(Append(r.decisions, x), y),
         MayFollow(Latest(r), x, r.declaration.uploader),
         MayFollow(x, y, r.declaration.uploader)
  PROVE  Continues(r, q)
<1> DEFINE n == Len(r.decisions)
           mid == Append(r.decisions, x)
           new == q.decisions
<1>1. r.decisions \in Seq(Decisions) /\ n \in Nat /\ n > 0
  BY DEF RecordOK, Records
<1>2. /\ mid \in Seq(Decisions) /\ Len(mid) = n + 1 /\ mid[n + 1] = x
      /\ \A i \in 1 .. n : mid[i] = r.decisions[i]
  BY <1>1
<1> HIDE DEF mid
<1>3. /\ new \in Seq(Decisions) /\ Len(new) = n + 2 /\ new[n + 2] = y /\ new[n + 1] = x
      /\ \A i \in 1 .. n : new[i] = r.decisions[i]
  BY <1>1, <1>2 DEF mid
<1>4. SubSeq(new, 1, n) = r.decisions
  BY <1>1, <1>3
<1>5. new[n] = Latest(r)
  BY <1>1, <1>3 DEF Latest
<1>6. \A i \in n + 1 .. Len(new) : (i = n + 1 /\ i - 1 = n) \/ (i = n + 2 /\ i - 1 = n + 1)
  BY <1>1, <1>3
<1> QED BY <1>3, <1>4, <1>5, <1>6 DEF Continues, MayFollow

LEMMA SavedContinues ==
  ASSUME AdmissionInv, NEW key, NEW r, Saves(key, r),
         key \in DOMAIN records => Continues(records[key], r)
  PROVE  HistoryContinues
<1> SUFFICES ASSUME NEW k \in DOMAIN records PROVE Continues(records[k], records'[k])
  BY DEF HistoryContinues
<1>1. CASE k = key
  BY <1>1 DEF Saves
<1>2. CASE k # key
  BY <1>2, ContinuesSelf DEF Saves, AdmissionInv
<1> QED BY <1>1, <1>2

(* A decision is one, and a later one of the uploader may follow.          *)
LEMMA DecisionFacts ==
  ASSUME NEW s \in States, NEW c, c.account \in Actors, NEW at \in Times
  PROVE  /\ Decision(s, c, at) \in Decisions
         /\ Decision(s, c, at).state = s
         /\ Decision(s, c, at).actor = c.account
         /\ Decision(s, c, at).at = at
BY DEF Decision, Decisions

LEMMA InspectContinues ==
  ASSUME AdmissionInv, NEW c, c.account \in Actors, NEW dataset, NEW file \in Files,
         NEW policy \in Policies, NEW at \in Times,
         InspectAndValidate(c, dataset, file, policy, at)
  PROVE  HistoryContinues
<1> DEFINE key == <<c.tenant, dataset>>
           r == records[key]
           result == Examined(r.declaration, file, policy)
           p == Quarantined(r, c, policy, at)
           q == Decides(p, result.state, c, at)
<1>1. /\ Found(c, dataset)
      /\ at >= Latest(r).at
      /\ r.state \in {"DECLARED", "QUARANTINED"}
      /\ \/ Saves(key, q)
         \/ Saves(key, [q EXCEPT !.inspection = result.inspection])
  BY DEF InspectAndValidate
<1>2. RecordOK(r) /\ r \in Records /\ r.declaration.uploader = c.account
  BY <1>1, FoundFacts
<1> HIDE DEF r
<1>3. /\ p \in Records
      /\ p.declaration = r.declaration
      /\ p.decisions = IF r.state = "DECLARED"
                       THEN Append(r.decisions, Decision("QUARANTINED", c, at))
                       ELSE r.decisions
  BY <1>2, QuarantinedFacts
<1>4. result.state \in States \ {"DECLARED", "ADMITTED", "REVOKED"}
  BY ExaminedFacts
<1> HIDE DEF p, result
<1>5. /\ q \in Records
      /\ q.declaration = r.declaration
      /\ q.decisions = Append(p.decisions, Decision(result.state, c, at))
  <2>1. p \in Records /\ result.state \in States
    BY <1>3, <1>4
  <2>2. /\ q \in Records
        /\ q.declaration = p.declaration
        /\ q.decisions = Append(p.decisions, Decision(result.state, c, at))
    BY <2>1, DecidesFacts
  <2> QED BY <1>3, <2>2
<1> HIDE DEF q
<1> DEFINE w == [q EXCEPT !.inspection = result.inspection]
<1>6. w.declaration = q.declaration /\ w.decisions = q.decisions
  BY <1>5 DEF Records
<1> HIDE DEF w
<1>7. at \in Int /\ at >= at
  BY TimesAssumption
<1>8. "QUARANTINED" \in States
  BY DEF States, AllowedTransitions
<1> DEFINE x == Decision("QUARANTINED", c, at)
           y == Decision(result.state, c, at)
<1>9. /\ x \in Decisions /\ x.state = "QUARANTINED" /\ x.actor = c.account /\ x.at = at
      /\ y \in Decisions /\ y.state = result.state /\ y.actor = c.account /\ y.at = at
  BY <1>4, <1>8, DecisionFacts
<1> HIDE DEF x, y
<1>10. MayFollow(x, y, c.account)
  BY <1>4, <1>7, <1>9 DEF MayFollow, States, AllowedTransitions
<1>11. \A u : u.declaration = r.declaration /\ u.decisions = q.decisions => Continues(r, u)
  <2> SUFFICES ASSUME NEW u, u.declaration = r.declaration, u.decisions = q.decisions
               PROVE  Continues(r, u)
    OBVIOUS
  <2>1. CASE r.state = "DECLARED"
    <3>1. MayFollow(Latest(r), x, c.account)
      BY <1>1, <1>2, <1>9, <2>1 DEF MayFollow, RecordOK, AllowedTransitions
    <3>2. u.decisions = Append(Append(r.decisions, x), y)
      BY <1>3, <1>5, <2>1 DEF x, y
    <3> QED BY <1>2, <1>9, <1>10, <3>1, <3>2, ContinuesByTwo
  <2>2. CASE r.state = "QUARANTINED"
    <3>1. MayFollow(Latest(r), y, c.account)
      BY <1>1, <1>2, <1>4, <1>9, <2>2 DEF MayFollow, RecordOK, States, AllowedTransitions
    <3>2. u.decisions = Append(r.decisions, y)
      BY <1>3, <1>5, <2>2 DEF y
    <3> QED BY <1>2, <1>9, <3>1, <3>2, ContinuesByOne
  <2> QED BY <1>1, <2>1, <2>2
<1>12. Continues(r, q) /\ Continues(r, w)
  BY <1>5, <1>6, <1>11
<1> QED BY <1>1, <1>12, SavedContinues, Zenon DEF r, w

LEMMA AdmitContinues ==
  ASSUME AdmissionInv, NEW c, c.account \in Actors, NEW dataset, NEW at \in Times,
         NEW e, NEW s, Admit(c, dataset, e, s, at)
  PROVE  HistoryContinues
<1> DEFINE key == <<c.tenant, dataset>>
           r == records[key]
           p == Decides(r, "ADMITTED", c, at)
           q == [p EXCEPT !.evidence = [data |-> e, storage |-> s]]
           x == Decision("ADMITTED", c, at)
<1>1. /\ Found(c, dataset) /\ at >= Latest(r).at /\ r.state = "VALIDATED" /\ Saves(key, q)
  BY DEF Admit
<1>2. RecordOK(r) /\ r \in Records /\ r.declaration.uploader = c.account
  BY <1>1, FoundFacts
<1> HIDE DEF r
<1>3. "ADMITTED" \in States
  BY DEF States, AllowedTransitions
<1>4. p \in Records /\ p.declaration = r.declaration /\ p.decisions = Append(r.decisions, x)
  BY <1>2, <1>3, DecidesFacts
<1>5. x \in Decisions /\ x.state = "ADMITTED" /\ x.actor = c.account /\ x.at = at
  BY <1>3, DecisionFacts
<1> HIDE DEF p, x
<1>6. q.declaration = r.declaration /\ q.decisions = Append(r.decisions, x)
  BY <1>4 DEF Records
<1> HIDE DEF q
<1>7. MayFollow(Latest(r), x, r.declaration.uploader)
  BY <1>1, <1>2, <1>5 DEF MayFollow, RecordOK, AllowedTransitions
<1>8. Continues(r, q)
  BY <1>2, <1>5, <1>6, <1>7, ContinuesByOne
<1> QED BY <1>1, <1>8, SavedContinues, Zenon DEF r

LEMMA RevokeContinues ==
  ASSUME AdmissionInv, NEW c, c.account \in Actors, NEW dataset, NEW at \in Times,
         Revoke(c, dataset, at)
  PROVE  HistoryContinues
<1> DEFINE key == <<c.tenant, dataset>>
           r == records[key]
           q == Decides(r, "REVOKED", c, at)
           x == Decision("REVOKED", c, at)
<1>1. /\ Found(c, dataset) /\ at >= Latest(r).at /\ r.state = "ADMITTED" /\ Saves(key, q)
  BY DEF Revoke
<1>2. RecordOK(r) /\ r \in Records /\ r.declaration.uploader = c.account
  BY <1>1, FoundFacts
<1> HIDE DEF r
<1>3. "REVOKED" \in States
  BY DEF States, AllowedTransitions
<1>4. q.declaration = r.declaration /\ q.decisions = Append(r.decisions, x)
  BY <1>2, <1>3, DecidesFacts
<1>5. x \in Decisions /\ x.state = "REVOKED" /\ x.actor = c.account /\ x.at = at
  BY <1>3, DecisionFacts
<1> HIDE DEF q, x
<1>6. MayFollow(Latest(r), x, r.declaration.uploader)
  BY <1>1, <1>2, <1>5 DEF MayFollow, RecordOK, AllowedTransitions
<1>7. Continues(r, q)
  BY <1>2, <1>4, <1>5, <1>6, ContinuesByOne
<1> QED BY <1>1, <1>7, SavedContinues, Zenon DEF r

LEMMA StepContinues ==
  ASSUME AccessInv, AdmissionInv, [Next]_vars
  PROVE  HistoryContinues
<1>1. ASSUME NEW c \in ActivatedContexts \cup Direct, AdmissionStep(c)
      PROVE  HistoryContinues
  <2>0. c.account \in Actors
    BY <1>1, CallerActs
  <2>1. ASSUME NEW d \in Declarations, Declare(c, d) PROVE HistoryContinues
    <3>1. PICK r : Saves(Key(d), r) /\ Key(d) \notin DOMAIN records
      BY <2>1 DEF Declare
    <3> QED BY <3>1, SavedContinues
  <2>2. ASSUME NEW i \in Datasets, NEW file \in Files, NEW policy \in Policies, NEW at \in Times,
               InspectAndValidate(c, i, file, policy, at)
        PROVE  HistoryContinues
    BY <2>0, <2>2, InspectContinues
  <2>3. ASSUME NEW i \in Datasets, NEW e \in DatasetEvidence, NEW s \in StorageEvidence,
               NEW at \in Times, Admit(c, i, e, s, at)
        PROVE  HistoryContinues
    BY <2>0, <2>3, AdmitContinues
  <2>4. ASSUME NEW i \in Datasets, NEW at \in Times, Revoke(c, i, at) PROVE HistoryContinues
    BY <2>0, <2>4, RevokeContinues
  <2> QED BY <1>1, <2>1, <2>2, <2>3, <2>4, Zenon DEF AdmissionStep
<1>2. ASSUME UNCHANGED admissionVars PROVE HistoryContinues
  <2>1. records' = records
    BY <1>2 DEF admissionVars
  <2> QED BY <2>1, ContinuesSelf DEF HistoryContinues, AdmissionInv
<1> QED BY <1>1, <1>2 DEF Next, AccessStep, vars

(* Whatever calls are made, a dataset's declaration stands and its history *)
(* only grows, by decisions of its uploader, in the order of their times,  *)
(* along ALLOWED_TRANSITIONS (_transition, _record_same_state_decision).   *)
THEOREM HistoryKept == Spec => HistoryStands
<1>1. AccessInv /\ AdmissionInv /\ [Next]_vars => [HistoryContinues]_vars
  BY StepContinues
<1>2. HistoryStands <=> [][HistoryContinues]_vars
  BY PTL DEF HistoryStands, HistoryContinues, Continues
<1> QED BY <1>1, <1>2, AdmissionSafety, PTL DEF Spec
=============================================================================
