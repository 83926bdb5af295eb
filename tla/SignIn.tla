------------------------------- MODULE SignIn -------------------------------
(* Signing in with Google: the flow from the sign-in page to the provider    *)
(* and back, and the account that the answer belongs to.                     *)
(*                                                                           *)
(* Every step of a request is one transaction or one read; the requests of   *)
(* other browsers come in between.                                           *)
EXTENDS Integers, Sequences, FiniteSets

CONSTANTS
  Subjects,       \* Google accounts, by their id (OIDC sub)
  NoAccount,         \* not a Google account: a registration
  Emails,         \* addresses, in normal form
  Browsers,       \* browsers, which share no cookie
  Asked,          \* the provider has not answered yet
  Cancelled,      \* the person has cancelled, or the provider has failed
  AtFirst,        \* what the provider may know when it begins: see google
  MaxFlows,       \* bound: sign-ins that are started
  MaxUsers,       \* bound: accounts
  MaxChanges      \* bound: changes at the provider and of accounts from outside

\* What is not an account or not an answer is told from what is.
Claims == [subject : Subjects, email : Emails, verified : BOOLEAN]
SubjectAssumption ==
  /\ NoAccount \notin Subjects /\ Asked # Cancelled /\ Asked \notin Claims /\ Cancelled \notin Claims
  /\ AtFirst \subseteq [Subjects -> [email : Emails, verified : BOOLEAN]]

VARIABLES
  google,       \* the provider: subject -> its address, and whether that is verified
  users,        \* users, by id
  identities,   \* user_identities: subject -> user, 0 if it is not linked
  cookie,       \* the flow that the cookie of a browser holds, 0: none
  tabs,         \* the flows of a browser at the provider
  callback,      \* the callback or registration that is served for a browser
  started,      \* how many flows there have been: state, nonce and verifier of each
  changes,      \* history: what MaxChanges bounds
  vouched,      \* history: <<subject, email>> that the provider has called verified
  signins,      \* history: <<subject, user>> that have signed in
  unlinked      \* history: subjects that have been unlinked

providerVars == <<google, vouched, changes>>
signInVars == <<providerVars, users, identities, cookie, tabs, callback, started, signins, unlinked>>

NoRequest == [pc |-> "idle", who |-> Asked, user |-> 0, retried |-> FALSE]

Init ==
  /\ google \in AtFirst
  /\ users = <<>> /\ identities = [s \in Subjects |-> 0]
  /\ cookie = [b \in Browsers |-> 0] /\ tabs = [b \in Browsers |-> {}]
  /\ callback = [b \in Browsers |-> NoRequest]
  /\ started = 0 /\ changes = 0
  /\ vouched = {} /\ signins = {} /\ unlinked = {}

\* Email addresses of users are unique.
UserOf(email) == IF \E u \in DOMAIN users : users[u].email = email
                   THEN CHOOSE u \in DOMAIN users : users[u].email = email ELSE 0
LinkedUsers == {identities[s] : s \in Subjects} \ {0}
------------------------------------------------------------------------------
(* The flow: api/sso.py and, at the other end, the provider.                 *)

\* google_start.  The cookie of an earlier start is overwritten.
Start(b) ==
  /\ started < MaxFlows /\ started' = started + 1
  /\ cookie' = [cookie EXCEPT ![b] = started']
  /\ tabs' = [tabs EXCEPT ![b] = @ \cup {[flow |-> started', answer |-> Asked]}]
  /\ UNCHANGED <<providerVars, users, identities, callback, signins, unlinked>>

\* The provider redirects back with a code for the account that was picked, as
\* it is now, or with an error.
Redirected(b, tab, answer) ==
  /\ tab.answer = Asked
  /\ tabs' = [tabs EXCEPT ![b] = (@ \ {tab}) \cup {[tab EXCEPT !.answer = answer]}]
  /\ UNCHANGED <<google, changes, users, identities, cookie, callback, started, signins, unlinked>>
Answer(b, tab, s) ==
  /\ Redirected(b, tab, [subject |-> s, email |-> google[s].email, verified |-> google[s].verified])
  /\ vouched' = IF google[s].verified THEN vouched \cup {<<s, google[s].email>>} ELSE vouched
Cancel(b, tab) == Redirected(b, tab, Cancelled) /\ UNCHANGED vouched

\* google_callback up to the identity.  The state has to be that of the cookie;
\* whatever the outcome, the answer takes the cookie away.
Callback(b, tab) ==
  /\ callback[b].pc = "idle" /\ tab.answer # Asked
  /\ tabs' = [tabs EXCEPT ![b] = @ \ {tab}]
  /\ IF tab.answer # Cancelled /\ cookie[b] = tab.flow
       THEN callback' = [callback EXCEPT ![b] = [NoRequest EXCEPT !.pc = "identity", !.who = tab.answer]] /\ UNCHANGED cookie
       ELSE cookie' = [cookie EXCEPT ![b] = 0] /\ UNCHANGED callback
  /\ UNCHANGED <<providerVars, users, identities, started, signins, unlinked>>
------------------------------------------------------------------------------
(* resolve_user and create_account.                                          *)

Goes(b, next) == callback' = [callback EXCEPT ![b] = next]
Ends(b) ==
  /\ Goes(b, NoRequest)
  /\ cookie' = IF callback[b].who.subject = NoAccount THEN cookie ELSE [cookie EXCEPT ![b] = 0]
SignedIn(b, u) == Ends(b) /\ signins' = signins \cup {<<callback[b].who.subject, u>>}

\* Only an address that the provider calls verified is trusted.
\* Mutant of Trusted: whatever the provider says of the address.
AnyTrusted(who) == who.subject \in Subjects
Trusted(who) == who.verified

\* Mutant of LinkOf: by the address first.
LinkByEmail(who) == IF UserOf(who.email) # 0 THEN UserOf(who.email) ELSE identities[who.subject]
LinkOf(who) == identities[who.subject]

FindIdentity(b) ==
  LET who == callback[b].who
  IN /\ callback[b].pc = "identity"
     /\ \/ ~Trusted(who) /\ Ends(b) /\ UNCHANGED signins
        \/ /\ Trusted(who) /\ LinkOf(who) # 0
           /\ IF users[LinkOf(who)].active THEN SignedIn(b, LinkOf(who)) ELSE Ends(b) /\ UNCHANGED signins
        \/ /\ Trusted(who) /\ LinkOf(who) = 0
           /\ Goes(b, [callback[b] EXCEPT !.pc = "email"]) /\ UNCHANGED <<cookie, signins>>
     /\ UNCHANGED <<providerVars, users, identities, tabs, started, unlinked>>

\* A user with the same address gets the link, unless it is inactive or has
\* another Google account already.
FindUser(b) ==
  LET u == UserOf(callback[b].who.email)
  IN /\ callback[b].pc = "email"
     /\ \/ u = 0 /\ Goes(b, [callback[b] EXCEPT !.pc = "create"]) /\ UNCHANGED cookie
        \/ u # 0 /\ (~users[u].active \/ u \in LinkedUsers) /\ Ends(b)
        \/ u # 0 /\ users[u].active /\ u \notin LinkedUsers
           /\ Goes(b, [callback[b] EXCEPT !.pc = "link", !.user = u]) /\ UNCHANGED cookie
     /\ UNCHANGED <<providerVars, users, identities, tabs, started, signins, unlinked>>

\* register, which is create_account with a password.
Register(b, email) ==
  /\ callback[b].pc = "idle"
  /\ Goes(b, [pc |-> "create", who |-> [subject |-> NoAccount, email |-> email, verified |-> FALSE], user |-> 0, retried |-> TRUE])
  /\ UNCHANGED <<providerVars, users, identities, cookie, tabs, started, signins, unlinked>>

\* The first commit of create_account.  If the address has been taken in the
\* meantime, a sign-in is resolved once more.
CreateUser(b) ==
  LET taken == UserOf(callback[b].who.email) # 0
  IN /\ callback[b].pc = "create"
     /\ \/ /\ ~taken /\ Len(users) < MaxUsers
           /\ users' = Append(users, [email |-> callback[b].who.email, active |-> TRUE, org |-> FALSE])
           /\ Goes(b, [callback[b] EXCEPT !.pc = "org", !.user = Len(users) + 1]) /\ UNCHANGED cookie
        \/ /\ taken /\ ~callback[b].retried
           /\ Goes(b, [callback[b] EXCEPT !.pc = "identity", !.retried = TRUE]) /\ UNCHANGED <<users, cookie>>
        \/ taken /\ callback[b].retried /\ Ends(b) /\ UNCHANGED users
     /\ UNCHANGED <<providerVars, identities, tabs, started, signins, unlinked>>

\* The second one, create_org.
CreateOrg(b) ==
  /\ callback[b].pc = "org"
  /\ users' = [users EXCEPT ![callback[b].user].org = TRUE]
  /\ IF callback[b].who.subject = NoAccount THEN Ends(b)
     ELSE Goes(b, [callback[b] EXCEPT !.pc = "link"]) /\ UNCHANGED cookie
  /\ UNCHANGED <<providerVars, identities, tabs, started, signins, unlinked>>

\* A subject has one user and a user one subject; if one of them is taken by now
\* the transaction is rolled back and the link looked for again.
Link(b) ==
  LET s == callback[b].who.subject
      u == callback[b].user
  IN /\ callback[b].pc = "link"
     /\ IF identities[s] = 0 /\ u \notin LinkedUsers
          THEN identities' = [identities EXCEPT ![s] = u] /\ SignedIn(b, u)
          ELSE Goes(b, [callback[b] EXCEPT !.pc = "again"]) /\ UNCHANGED <<identities, cookie, signins>>
     /\ UNCHANGED <<providerVars, users, tabs, started, unlinked>>
FindAgain(b) ==
  LET u == identities[callback[b].who.subject]
  IN /\ callback[b].pc = "again"
     /\ IF u # 0 THEN SignedIn(b, u) ELSE Ends(b) /\ UNCHANGED signins
     /\ UNCHANGED <<providerVars, users, identities, tabs, started, unlinked>>

\* The provider cannot be asked, a unique address is taken while it is inserted,
\* the process ends: what is committed stays.
RequestFails(b) ==
  /\ callback[b].pc # "idle" /\ Ends(b)
  /\ UNCHANGED <<providerVars, users, identities, tabs, started, signins, unlinked>>
------------------------------------------------------------------------------
(* The account page, and what happens outside.                               *)

unlink_identity(s) ==
  /\ identities[s] # 0
  /\ identities' = [identities EXCEPT ![s] = 0] /\ unlinked' = unlinked \cup {s}
  /\ UNCHANGED <<providerVars, users, cookie, tabs, callback, started, signins>>

Changed == changes < MaxChanges /\ changes' = changes + 1
ChangeGoogle(s, account) ==
  /\ account # google[s] /\ Changed /\ google' = [google EXCEPT ![s] = account]
  /\ UNCHANGED <<vouched, users, identities, cookie, tabs, callback, started, signins, unlinked>>
Deactivate(u) ==
  /\ Changed /\ users' = [users EXCEPT ![u].active = FALSE]
  /\ UNCHANGED <<google, vouched, identities, cookie, tabs, callback, started, signins, unlinked>>

Next ==
  \/ \E b \in Browsers :
       \/ Start(b) \/ FindIdentity(b) \/ FindUser(b) \/ CreateUser(b) \/ CreateOrg(b) \/ Link(b) \/ FindAgain(b)
       \/ RequestFails(b) \/ \E email \in Emails : Register(b, email)
       \/ \E tab \in tabs[b] : Cancel(b, tab) \/ Callback(b, tab) \/ \E s \in Subjects : Answer(b, tab, s)
  \/ \E s \in Subjects : unlink_identity(s) \/ \E account \in [email : Emails, verified : BOOLEAN] : ChangeGoogle(s, account)
  \/ \E u \in DOMAIN users : Deactivate(u)

Spec == Init /\ [][Next]_signInVars
------------------------------------------------------------------------------
(* Properties.                                                               *)

\* A Google account that has not been unlinked signs in as one user for good,
\* whatever happens to its address, whoever else signs in or registers at the
\* same time and wherever a request fails (resolve_user).
StickyIdentity == \A s \in Subjects \ unlinked : \A u, v \in DOMAIN users : {<<s, u>>, <<s, v>>} \subseteq signins => u = v

\* A user is linked only to a Google account that the provider has called the
\* verified owner of the user's address, even if the address moves between two
\* Google accounts while the link is made (resolve_user).
VouchedFor == \A s \in Subjects : identities[s] # 0 => <<s, users[identities[s]].email>> \in vouched
=============================================================================
