-------------------------- MODULE AccessRegistry --------------------------
(***************************************************************************)
(* quantum.access.AccessRegistry: an invite opens one account, and the     *)
(* account is a tenant of its own.  A call takes its time before it takes  *)
(* the lock, so a call may act on the registry with a time gone by.        *)
(* Times are the callers': `now' is an argument of issue and activation.   *)
(***************************************************************************)
EXTENDS Naturals, FiniteSets

CONSTANTS
  Invites,       \* codes the registry may issue
  Accounts,      \* account ids uuid4 may draw
  Times,
  Threads,       \* callers of activate_invite
  NoCall,
  Unused         \* activated_at of an invite nobody has activated

ASSUME UnusedAssumption == Unused \notin Times

VARIABLES
  invites,       \* issued codes: when they expire, when they were activated
  accounts,      \* accounts: when they were created
  activating,    \* the call each thread is in
  granted        \* history: which invite opened which account

accessVars == <<invites, accounts, activating, granted>>

AccessInit ==
  /\ invites = << >>
  /\ accounts = << >>
  /\ activating = [t \in Threads |-> NoCall]
  /\ granted = {}

(* issue_invite: draws until the code is new; the expiry lies ahead.       *)
IssueInvite(code, expiry, current) ==
  /\ expiry > current
  /\ code \notin DOMAIN invites
  /\ invites' = [c \in DOMAIN invites \cup {code} |->
                   IF c = code THEN [expires |-> expiry, activated |-> Unused]
                               ELSE invites[c]]
  /\ UNCHANGED <<accounts, activating, granted>>

(* activate_invite up to the lock: the time is taken.                      *)
ActivateBegin(t, code, current) ==
  /\ activating[t] = NoCall
  /\ activating' = [activating EXCEPT ![t] = [code |-> code, current |-> current]]
  /\ UNCHANGED <<invites, accounts, granted>>

(* A slip: whether the invite is used is not looked at under the lock.     *)
UsableUnlessExpired(call) ==
  /\ call.code \in DOMAIN invites
  /\ call.current < invites[call.code].expires

(* What the lock protects: an invite that is known, unused and not expired *)
Usable(call) ==
  /\ call.code \in DOMAIN invites
  /\ invites[call.code].activated = Unused
  /\ call.current < invites[call.code].expires

(* activate_invite under the lock: a new account, and the invite is used.  *)
Activate(t) ==
  /\ activating[t] # NoCall
  /\ Usable(activating[t])
  /\ \E a \in Accounts \ DOMAIN accounts :
       /\ a = CHOOSE b \in Accounts : b \notin DOMAIN accounts
       /\ accounts' = [b \in DOMAIN accounts \cup {a} |->
                         IF b = a THEN activating[t].current ELSE accounts[b]]
       /\ granted' = granted \cup {[invite |-> activating[t].code, account |-> a]}
  /\ invites' = [invites EXCEPT ![activating[t].code].activated = activating[t].current]
  /\ activating' = [activating EXCEPT ![t] = NoCall]

ActivateRaises(t) ==
  /\ activating[t] # NoCall
  /\ ~Usable(activating[t])
  /\ activating' = [activating EXCEPT ![t] = NoCall]
  /\ UNCHANGED <<invites, accounts, granted>>

(* The tenant contexts that activations have returned.                     *)
ContextOf(a) == [tenant |-> a, account |-> a]
ActivatedContexts == {ContextOf(a) : a \in DOMAIN accounts}

(* However activations race, every account was opened by one invite and no *)
(* invite opened two; the invite records the activation of that account,   *)
(* which happened before the invite expired (activate_invite's lock).      *)
OneAccountPerInvite ==
  /\ DOMAIN accounts = {g.account : g \in granted}
  /\ \A g, h \in granted : g.invite = h.invite <=> g.account = h.account
  /\ \A v \in DOMAIN invites :
       invites[v].activated # Unused <=> v \in {g.invite : g \in granted}
  /\ \A g \in granted :
       /\ accounts[g.account] = invites[g.invite].activated
       /\ accounts[g.account] < invites[g.invite].expires
=============================================================================
