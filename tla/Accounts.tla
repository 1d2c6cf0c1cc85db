------------------------------ MODULE Accounts ------------------------------
(***************************************************************************)
(* Accounts and what opens them: registration and the first setup, login    *)
(* with its second factors, password resets, the one-time grants mailed or   *)
(* shown to a user, bearer tokens of the REST API, OAuth, MiAuth and the      *)
(* Misskey app flow, AT sessions, and the limits on attempts and on new      *)
(* accounts.                                                               *)
(*                                                                         *)
(* A request is a call in a slot, which takes a step per statement that      *)
(* another request can come between.  now counts seconds.  A password, a     *)
(* code or a token is a value: two are equal or not.  Mail is left out: a    *)
(* grant is in the hands of its owner once its row is there.                 *)
(***************************************************************************)
EXTENDS Integers, Sequences, FiniteSets, FiniteSetsExt

CONSTANTS
    None,
    Scripts,        \* what may happen: requests, the tables at first; bounds: ticks, crashes
    Calls,          \* slots for requests under way at the same time
    Window,         \* seconds of every sliding window (attempts, rejections, new accounts)
    Ttl,            \* seconds a one-time grant or a pending login lives
    BlockTime,      \* seconds an address stays blocked
    MaxAccounts,    \* max_user_accounts; 0 for no limit
    IpMax,          \* account_creation_ip_max
    MaxVariants,    \* auth_bruteforce_max_variants
    BlockThreshold, \* auth_ip_block_threshold
    MaxActive,      \* password_reset_max_active
    RecoveryCodes   \* RECOVERY_CODE_COUNT

VARIABLES
    db,     \* tables: users, grants (one-time rows by key), appTokens, refresh, appPasswords, apps,
            \* attempts, creations, blocks (of addresses), settings (closed, verify, smtp)
    held,   \* what clients hold: bearer tokens, AT sessions, pending logins, TOTP secrets
    now, nextId, calls, todo, script, crashes,
    log     \* history: uses of one-time grants, secrets tried, tokens accepted, cuts (revocations), accounts made

control == <<now, todo, script, crashes>>
vars == <<db, held, control, nextId, calls, log>>

NoCall == [op |-> "none"]
At(s, l) == calls[s].op # "none" /\ calls[s].pc = l
Rq(s) == calls[s].req
Goto(s, c, l) == calls' = [calls EXCEPT ![s] = [c EXCEPT !.pc = l]]
Finish(s) == calls' = [calls EXCEPT ![s] = NoCall]
Put(f, k, v) == [x \in DOMAIN f \cup {k} |-> IF x = k THEN v ELSE f[x]]
Drop(f, ks) == [x \in DOMAIN f \ ks |-> f[x]]
Later(a, b) == IF a = None THEN b ELSE IF b = None THEN a ELSE Max({a, b})

-----------------------------------------------------------------------------
(* One-time grants: email_verification.rs, password_reset.rs, email_change.rs, *)
(* email_short_code.rs, totp.rs, passkey.rs, oauth.rs                        *)

Grant(kind, user, data) == [kind |-> kind, user |-> user, data |-> data, exp |-> now + Ttl, used |-> FALSE]
Issue(d, kind, user, data) == [d EXCEPT !.grants = Put(@, nextId, Grant(kind, user, data))]
Fresh(kind) == {k \in DOMAIN db.grants : db.grants[k].kind = kind /\ ~db.grants[k].used /\ now < db.grants[k].exp}
Used(k) == log' = [log EXCEPT !.uses = Put(@, k, 1 + IF k \in DOMAIN @ THEN @[k] ELSE 0)]

(* DELETE ... WHERE expires_at > now RETURNING: the row is taken once.        *)
Consume(d, k) == [d EXCEPT !.grants = Drop(@, {k})]
ConsumeVerification(k) == k \in Fresh("register")
ConsumeEmailChange(k) == k \in Fresh("change")
ConsumeDisableRequest(k) == k \in Fresh("disable")
ConsumeChallenge(k, user, kind) == k \in Fresh(kind) /\ db.grants[k].user = user
ConsumeAuthorizationCode(k, app) == k \in Fresh("code") /\ db.grants[k].data.app = app
ConsumeMisskeyAuthSession(k, app) == k \in Fresh("auth") /\ db.grants[k].data = app /\ db.grants[k].user # None
CountActiveByUser(u) == Cardinality({k \in Fresh("reset") : db.grants[k].user = u})
(* used_at of the newest password reset that was carried out.               *)
FindLastUsedAt(u) ==
    LET done == {db.grants[k].data : k \in {k \in DOMAIN db.grants : db.grants[k].kind = "reset" /\ db.grants[k].used /\ db.grants[k].user = u}}
    IN  IF done = {} THEN None ELSE Max(done)
MarkRecoveryCodeUsed(k) == k \in DOMAIN db.grants /\ ~db.grants[k].used

-----------------------------------------------------------------------------
(* Accounts: user.rs *)

Users == DOMAIN db.users
User(u) == db.users[u]
EmailExists(e) == \E u \in Users : User(u).email = e
FindLoginBy(ident) == {u \in Users : ident \in {User(u).email, User(u).name} /\ ~User(u).withdrawn}
FindIdByEmail(e) == {u \in Users : User(u).email = e}
NewUser(email, name, pw, role) ==
    [email |-> email, name |-> name, pw |-> pw, role |-> role, validAfter |-> None, lastLogin |-> None, withdrawn |-> FALSE,
     suspended |-> FALSE, moved |-> FALSE, totp |-> None, passkeys |-> {}]
(* users_email_key and actors_ap_uri_key: both rows or neither.              *)
Unique(email, name) == \A u \in Users : User(u).email # email /\ User(u).name # name
CreateLocalAccount(d, u, email, name, pw, role) == [d EXCEPT !.users = Put(@, u, NewUser(email, name, pw, role))]
UpdatePasswordHash(d, u, pw) == [d EXCEPT !.users[u].pw = pw, !.users[u].validAfter = now]
RevokeAllTokens(d, u) == [d EXCEPT !.users[u].validAfter = now]
FindTokenValidAfter(u) == User(u).validAfter
IsSuspended(u) == User(u).suspended
IsWithdrawn(u) == User(u).withdrawn
SetSuspended(d, u, b) == [d EXCEPT !.users[u].suspended = b]
UpdateRole(d, u, role) == [d EXCEPT !.users[u].role = role]
UpdateEmail(d, u, email) == [d EXCEPT !.users[u].email = email]
TouchLastLoginSuccess(d, u) == [d EXCEPT !.users[u].lastLogin = now]
WithdrawLocalActor(d, u) == [d EXCEPT !.users[u].withdrawn = TRUE]
InsertPasskey(d, u, k) == [d EXCEPT !.users[u].passkeys = @ \cup {k}]
DeletePasskeyRow(d, u, k) == [d EXCEPT !.users[u].passkeys = @ \ {k}]
Cut(c) == log' = [log EXCEPT !.cuts = @ \cup {c}]

-----------------------------------------------------------------------------
(* Tokens: auth/local.rs, middleware/auth.rs *)

(* A JWT names its user, second and id; it does not expire.  The hash is what *)
(* a client of the Misskey app flow sends instead: it has no date.           *)
Token(kind, u, id) == [kind |-> kind, user |-> u, iat |-> now, id |-> id]
GenerateToken(u) == Token("session", u, nextId)
GenerateAppToken(u) == Token("app", u, nextId)
GeneratePendingTotpToken(u) == [kind |-> "pending", user |-> u, exp |-> now + Ttl]
VerifyPendingTotpToken(u) == {t \in held : t.kind = "pending" /\ t.user = u /\ now < t.exp}
Bearers(u) == {t \in held : t.kind \in {"session", "app", "hash"} /\ t.user = u}
Recorded(id, u, app, hashed) == [id |-> id, user |-> u, app |-> app, hashed |-> hashed, revoked |-> FALSE]
Status(id) == \E x \in db.appTokens : x.id = id /\ x.revoked
FindUserByMisskeyHash(t) == \E x \in db.appTokens : x.id = t.id /\ x.hashed /\ ~x.revoked
VerifyToken(t) ==
    IF t.kind = "hash" THEN FindUserByMisskeyHash(t)
    ELSE ~Status(t.id) /\ (FindTokenValidAfter(t.user) # None => t.iat >= FindTokenValidAfter(t.user))
ExtractAuthAllowSuspended(t) == VerifyToken(t) /\ ~IsWithdrawn(t.user)
ExtractAuth(t) == ExtractAuthAllowSuspended(t) /\ ~IsSuspended(t.user)
RoleAllows(op, role) ==
    CASE op \in {"suspend", "unsuspend", "setRole", "dropTotp", "unblock", "settings"} -> role = "admin"
      [] OTHER -> TRUE
AcceptToken(t, by) ==
    log' = [log EXCEPT !.accepted = @ \cup {[token |-> t, by |-> by, cuts |-> log.cuts]}]

(* A request that needs a session: extract_auth, then the operation.  An     *)
(* upload that is refused, or brings no header, is not over: its form may    *)
(* hold a token.  What it stores is Media's.                                *)
Authenticate(s) ==
    /\ At(s, "auth")
    /\ LET r == Rq(s)
           Refuse == UNCHANGED log /\ IF r.op = "upload" THEN Goto(s, calls[s], "signature") ELSE Finish(s)
       IN  \/ (Bearers(r.by) = {} \/ r.op = "upload") /\ Refuse
           \/ \E t \in Bearers(r.by) :
                IF r.by \in Users /\ RoleAllows(r.op, User(r.by).role)
                   /\ (IF r.op = "me" THEN ExtractAuthAllowSuspended(t) ELSE ExtractAuth(t))
                THEN AcceptToken(t, "extract_auth") /\ IF r.op = "upload" THEN Finish(s) ELSE Goto(s, calls[s], r.op)
                ELSE Refuse
    /\ UNCHANGED <<db, held, nextId, control>>

(* The WebSocket of /api/streaming and the token in an upload's form: the    *)
(* signature is all that is asked of a JWT.  Neither a revocation nor a new  *)
(* password, a suspension or a withdrawal is read.                          *)
VerifyTokenIgnoringExp(s) ==
    /\ At(s, "signature")
    /\ \/ \E t \in Bearers(Rq(s).by) : t.kind # "hash" /\ AcceptToken(t, "signature")
       \/ UNCHANGED log
    /\ Finish(s)
    /\ UNCHANGED <<db, held, nextId, control>>

-----------------------------------------------------------------------------
(* The limits: rate_limit.rs, auth_rate_limit.rs *)

CheckIpNotBlocked(ip) == ip = None \/ ip \notin DOMAIN db.blocks \/ now >= db.blocks[ip]
WindowResetAt(u) == Later(FindLastUsedAt(u), User(u).lastLogin)
IdentifierSince(reset) == Later(reset, now - Window)
(* Faulty variant: the attempt under way is not counted.                     *)
VariantsByIdentifierOthers(a, since) ==
    Cardinality({x.secret : x \in {x \in db.attempts : x.kind = a.kind /\ x.ident = a.ident /\ x.at >= since /\ x.id < a.id}})
VariantsByIdentifier(a, since) ==
    Cardinality({x.secret : x \in {x \in db.attempts : x.kind = a.kind /\ x.ident = a.ident /\ x.at >= since}})
VariantsBySecret(a) ==
    Cardinality({x.ident : x \in {x \in db.attempts : x.kind = a.kind /\ x.secret = a.secret /\ x.at >= a.at - Window}})
RecentRejections(ip) == Cardinality({x \in db.attempts : x.ip = ip /\ x.rejected /\ x.at >= now - Window})

MarkRejected(d, a) == [d EXCEPT !.attempts = (@ \ {a}) \cup {[a EXCEPT !.rejected = TRUE]}]
BlockIp(d, ip) == [d EXCEPT !.blocks = Put(@, ip, now + BlockTime)]
(* The attempt is recorded before it is counted; the window was fixed first. *)
RecordAttempt(s) ==
    /\ At(s, "attempt")
    /\ LET c == calls[s]
           a == [id |-> nextId, kind |-> c.kind, ident |-> c.ident, secret |-> c.secret, ip |-> c.req.ip, at |-> now, rejected |-> FALSE]
       IN  /\ db' = [db EXCEPT !.attempts = @ \cup {a}]
           /\ Goto(s, [c EXCEPT !.row = a, !.since = IdentifierSince(@)], "count")
    /\ nextId' = nextId + 1
    /\ UNCHANGED <<held, log, control>>
CheckAndRecordCredentialAttempt(s) ==
    /\ At(s, "count")
    /\ LET c == calls[s]
           a == c.row
       IN  IF VariantsByIdentifier(a, c.since) > MaxVariants \/ VariantsBySecret(a) > MaxVariants
           THEN /\ db' = MarkRejected(db, a)
                /\ IF a.ip = None THEN Finish(s) ELSE Goto(s, c, "rejected")
           ELSE Goto(s, c, "verify") /\ UNCHANGED db
    /\ UNCHANGED <<held, nextId, log, control>>
RecordIpRejectionAndMaybeBlock(s) ==
    /\ At(s, "rejected")
    /\ LET ip == Rq(s).ip
       IN  db' = IF RecentRejections(ip) >= BlockThreshold THEN BlockIp(db, ip) ELSE db
    /\ Finish(s)
    /\ UNCHANGED <<held, nextId, log, control>>

(* pg_advisory_xact_lock per address: count and insert are one step.         *)
Created(ip) == {x \in db.creations : x.ip = ip /\ x.at >= now - Window}
ReserveAccountCreation(ip) == Cardinality(Created(ip)) < IpMax
CancelAccountCreation(d, id) == [d EXCEPT !.creations = {x \in @ : x.id # id}]

-----------------------------------------------------------------------------
(* Registration: auth.rs, email_verify.rs, setup.rs *)

AccountLimitReached == MaxAccounts > 0 /\ Cardinality(Users) >= MaxAccounts
EnsureRegistrationOpen == ~db.settings.closed /\ ~AccountLimitReached
(* Where a call begins.                                                     *)
Entry(r) ==
    CASE r.op \in {"register", "verifyEmail"} -> "open"
      [] r.op \in {"login", "createSession", "totpVerify", "setup", "requestReset", "reset", "confirmChange", "requestDisable",
                   "confirmDisable", "passkeyStart", "passkeyLogin", "createApp", "token", "revoke", "generate", "userkey",
                   "check", "refresh", "deleteSession", "deactivate"} -> r.op
      [] r.op = "stream" -> "signature"
      [] OTHER -> "auth"
Start(s) ==
    /\ calls[s] = NoCall
    /\ \E r \in todo :
        /\ todo' = todo \ {r}
        /\ calls' = [calls EXCEPT ![s] = [op |-> r.op, req |-> r, pc |-> Entry(r), user |-> None, kind |-> None, ident |-> None,
                                          secret |-> None, hash |-> None, since |-> None, row |-> None, email |-> None, key |-> None]]
    /\ UNCHANGED <<db, held, now, script, crashes, nextId, log>>

Open(s) ==
    /\ At(s, "open")
    /\ IF EnsureRegistrationOpen THEN Goto(s, calls[s], Rq(s).op) ELSE Finish(s)
    /\ UNCHANGED <<db, held, nextId, log, control>>
RequestEmailVerification(s) ==
    /\ At(s, "verifyEmail")
    /\ IF EmailExists(Rq(s).email) THEN UNCHANGED <<db, nextId>>
       ELSE db' = Issue(db, "register", None, Rq(s).email) /\ nextId' = nextId + 1
    /\ Finish(s)
    /\ UNCHANGED <<held, log, control>>
(* No address, no limit: a request that reached us without one is let go on. *)
Register(s) ==
    /\ At(s, "register")
    /\ LET ip == Rq(s).ip
           row == [id |-> nextId, ip |-> ip, at |-> now]
       IN  IF ~CheckIpNotBlocked(ip) THEN Finish(s) /\ UNCHANGED <<db, nextId>>
           ELSE IF ip = None THEN Goto(s, calls[s], "email") /\ UNCHANGED <<db, nextId>>
           ELSE IF ReserveAccountCreation(ip)
           THEN /\ db' = [db EXCEPT !.creations = @ \cup {row}]
                /\ nextId' = nextId + 1
                /\ Goto(s, [calls[s] EXCEPT !.row = row], "email")
           ELSE Finish(s) /\ UNCHANGED <<db, nextId>>
    /\ UNCHANGED <<held, log, control>>
(* The input is checked, then the token is spent, whatever comes after.      *)
ResolveRegistrationEmail(s) ==
    /\ At(s, "email")
    /\ LET c == calls[s]
           r == c.req
       IN  \/ r.token /\ \E k \in Fresh("register") :
                /\ ConsumeVerification(k)
                /\ db' = Consume(db, k) /\ Used(k)
                /\ Goto(s, [c EXCEPT !.email = db.grants[k].data], "available")
           \/ /\ IF r.token THEN Fresh("register") = {} ELSE db.settings.verify
              /\ Goto(s, c, "cancel") /\ UNCHANGED <<db, log>>
           \/ /\ ~r.token /\ ~db.settings.verify
              /\ Goto(s, [c EXCEPT !.email = r.email], "available") /\ UNCHANGED <<db, log>>
    /\ UNCHANGED <<held, nextId, control>>
EnsureAccountAvailable(s) ==
    /\ At(s, "available")
    /\ Goto(s, calls[s], IF Unique(calls[s].email, Rq(s).name) THEN "create" ELSE "cancel")
    /\ UNCHANGED <<db, held, nextId, log, control>>
RegisterAccount(s) ==
    /\ At(s, "create")
    /\ LET c == calls[s]
           r == c.req
       IN  IF Unique(c.email, r.name)
           THEN /\ db' = CreateLocalAccount(db, nextId, c.email, r.name, r.secret, "user")
                /\ held' = held \cup {GenerateToken(nextId)}
                /\ log' = [log EXCEPT !.made = @ \cup {[user |-> nextId, ip |-> r.ip, at |-> IF c.row = None THEN now ELSE c.row.at]}]
                /\ nextId' = nextId + 1
                /\ Finish(s)
           ELSE Goto(s, c, "cancel") /\ UNCHANGED <<db, held, nextId, log>>
    /\ UNCHANGED control
CancelRegistration(s) ==
    /\ At(s, "cancel")
    /\ db' = IF calls[s].row = None THEN db ELSE CancelAccountCreation(db, calls[s].row.id)
    /\ Finish(s)
    /\ UNCHANGED <<held, nextId, log, control>>

(* The first account: the count is read, the row is written later.           *)
Setup(s) ==
    /\ At(s, "setup")
    /\ IF Users = {} THEN Goto(s, calls[s], "setupCreate") ELSE Finish(s)
    /\ UNCHANGED <<db, held, nextId, log, control>>
SetupCreate(s) ==
    /\ At(s, "setupCreate")
    /\ LET r == Rq(s)
       IN  IF Unique(r.email, r.name)
           THEN /\ db' = CreateLocalAccount(db, nextId, r.email, r.name, r.secret, "admin")
                /\ held' = held \cup {GenerateToken(nextId)}
                /\ nextId' = nextId + 1
           ELSE UNCHANGED <<db, held, nextId>>
    /\ Finish(s)
    /\ UNCHANGED <<log, control>>

-----------------------------------------------------------------------------
(* Login: auth.rs, totp.rs, passkeys.rs *)

(* The account is read before the attempt is counted, and for a login its     *)
(* hash with it.                                                            *)
Lookup(s, kind, ident, secret) ==
    LET us == FindLoginBy(ident)
        u == IF us = {} THEN None ELSE CHOOSE x \in us : TRUE
    IN  Goto(s, [calls[s] EXCEPT !.user = u, !.kind = kind, !.ident = ident, !.secret = secret,
                                 !.hash = IF u = None \/ calls[s].op # "login" THEN None ELSE User(u).pw,
                                 !.since = IF u = None THEN None ELSE WindowResetAt(u)], "attempt")
Login(s) ==
    /\ At(s, "login")
    /\ IF CheckIpNotBlocked(Rq(s).ip) THEN Lookup(s, "login", Rq(s).ident, Rq(s).secret) ELSE Finish(s)
    /\ UNCHANGED <<db, held, nextId, log, control>>
Tried(s) ==
    LET c == calls[s]
    IN  [kind |-> c.kind, ident |-> c.ident, secret |-> c.secret, id |-> c.row.id, at |-> c.row.at, since |-> c.since, ip |-> c.row.ip]
TotpEnabled(u) == User(u).totp # None /\ User(u).totp.enabled
VerifyPassword(s) ==
    /\ At(s, "verify") /\ calls[s].op = "login"
    /\ log' = [log EXCEPT !.tried = @ \cup {Tried(s)}]
    /\ LET c == calls[s]
       IN  IF c.user = None \/ c.hash # c.secret THEN Finish(s) /\ UNCHANGED held
           ELSE IF TotpEnabled(c.user)
           THEN held' = held \cup {GeneratePendingTotpToken(c.user)} /\ Finish(s)
           ELSE Goto(s, c, "finish") /\ UNCHANGED held
    /\ UNCHANGED <<db, nextId, control>>
(* touch_last_login_success, then the token.                                *)
FinishLogin(s) ==
    /\ At(s, "finish")
    /\ db' = TouchLastLoginSuccess(db, calls[s].user)
    /\ held' = held \cup {GenerateToken(calls[s].user)}
    /\ nextId' = nextId + 1
    /\ Finish(s)
    /\ UNCHANGED <<log, control>>
(* The token is renewed each time the client starts.                        *)
Me(s) ==
    /\ At(s, "me")
    /\ held' = held \cup {GenerateToken(Rq(s).by)}
    /\ nextId' = nextId + 1
    /\ Finish(s)
    /\ UNCHANGED <<db, log, control>>

(* A code is six digits of the app, or one of the recovery codes.            *)
TotpVerify(s) ==
    /\ At(s, "totpVerify")
    /\ LET r == Rq(s)
       IN  IF CheckIpNotBlocked(r.ip) /\ VerifyPendingTotpToken(r.by) # {} /\ TotpEnabled(r.by)
           THEN Goto(s, [calls[s] EXCEPT !.user = r.by, !.kind = "totp", !.ident = User(r.by).name, !.secret = r.secret,
                                         !.hash = User(r.by).totp.key, !.since = WindowResetAt(r.by)], "attempt")
           ELSE Finish(s)
    /\ UNCHANGED <<db, held, nextId, log, control>>
RecoveryCodesOf(u) == {k \in DOMAIN db.grants : db.grants[k].kind = "recovery" /\ db.grants[k].user = u /\ ~db.grants[k].used}
VerifyCode(s) ==
    /\ At(s, "verify") /\ calls[s].op = "totpVerify"
    /\ log' = [log EXCEPT !.tried = @ \cup {Tried(s)}]
    /\ LET c == calls[s]
       IN  \/ /\ c.secret = "digits"           \* of the app the user set up last
              /\ \E t \in {t \in held : t.kind = "secret" /\ t.user = c.user} :
                    IF t.key = c.hash THEN Goto(s, c, "finish") ELSE Finish(s)
           \/ /\ c.secret = "recovery"         \* list_unused_recovery_codes
              /\ IF RecoveryCodesOf(c.user) = {} THEN Finish(s)
                 ELSE Goto(s, [c EXCEPT !.key = Min(RecoveryCodesOf(c.user))], "recovery")
           \/ c.secret \notin {"digits", "recovery"} /\ Finish(s)
    /\ UNCHANGED <<db, held, nextId, control>>
UseRecoveryCode(s) ==
    /\ At(s, "recovery")
    /\ LET k == calls[s].key
       IN  IF MarkRecoveryCodeUsed(k)
           THEN db' = [db EXCEPT !.grants[k].used = TRUE] /\ Used(k) /\ Goto(s, calls[s], "finish")
           ELSE Finish(s) /\ UNCHANGED <<db, log>>
    /\ UNCHANGED <<held, nextId, control>>

(* upsert_pending: a new secret; a row that is there is not enabled any more.*)
UpsertPending(d, u, key) == [d EXCEPT !.users[u].totp = [key |-> key, enabled |-> FALSE]]
TotpSetup(s) ==
    /\ At(s, "totpSetup")
    /\ IF TotpEnabled(Rq(s).by) THEN Finish(s) ELSE Goto(s, calls[s], "totpUpsert")
    /\ UNCHANGED <<db, held, nextId, log, control>>
TotpUpsert(s) ==
    /\ At(s, "totpUpsert")
    /\ db' = UpsertPending(db, Rq(s).by, nextId)
    /\ held' = {t \in held : ~(t.kind = "secret" /\ t.user = Rq(s).by)} \cup {[kind |-> "secret", user |-> Rq(s).by, key |-> nextId]}
    /\ nextId' = nextId + 1
    /\ Finish(s)
    /\ UNCHANGED <<log, control>>
(* The code is checked against the secret read here.                         *)
TotpEnable(s) ==
    /\ At(s, "totpEnable")
    /\ LET u == Rq(s).by
       IN  IF /\ User(u).totp # None /\ ~TotpEnabled(u)
              /\ \E t \in held : t.kind = "secret" /\ t.user = u /\ t.key = User(u).totp.key
           THEN Goto(s, calls[s], "totpCodes") ELSE Finish(s)
    /\ UNCHANGED <<db, held, nextId, log, control>>
(* Old codes go, new ones come, the row is enabled, in one transaction.      *)
EnableWithRecoveryCodes(s) ==
    /\ At(s, "totpCodes")
    /\ LET u == Rq(s).by
           new == nextId .. nextId + RecoveryCodes - 1
           kept == Drop(db.grants, {k \in DOMAIN db.grants : db.grants[k].kind = "recovery" /\ db.grants[k].user = u})
       IN  IF User(u).totp = None THEN UNCHANGED db
           ELSE db' = [db EXCEPT !.grants = [k \in DOMAIN kept \cup new |-> IF k \in new THEN Grant("recovery", u, None) ELSE kept[k]],
                                 !.users[u].totp.enabled = TRUE]
    /\ nextId' = nextId + RecoveryCodes
    /\ Finish(s)
    /\ UNCHANGED <<held, log, control>>
(* Recovery codes go with the row (ON DELETE CASCADE).                       *)
DeleteTotp(d, u) ==
    [d EXCEPT !.users[u].totp = None,
              !.grants = Drop(@, {k \in DOMAIN @ : @[k].kind = "recovery" /\ @[k].user = u})]
TotpDisable(s) ==
    /\ At(s, "totpDisable")
    /\ db' = IF User(Rq(s).by).pw = Rq(s).secret THEN DeleteTotp(db, Rq(s).by) ELSE db
    /\ Finish(s)
    /\ UNCHANGED <<held, nextId, log, control>>
TotpRequestDisableEmail(s) ==
    /\ At(s, "requestDisable")
    /\ IF VerifyPendingTotpToken(Rq(s).by) # {}
       THEN db' = Issue(db, "disable", Rq(s).by, None) /\ nextId' = nextId + 1
       ELSE UNCHANGED <<db, nextId>>
    /\ Finish(s)
    /\ UNCHANGED <<held, log, control>>
TotpConfirmDisable(s) ==
    /\ At(s, "confirmDisable")
    /\ \/ Fresh("disable") = {} /\ Finish(s) /\ UNCHANGED <<db, log>>
       \/ \E k \in DOMAIN db.grants :
            /\ ConsumeDisableRequest(k)
            /\ db' = Consume(db, k) /\ Used(k)
            /\ Goto(s, [calls[s] EXCEPT !.user = db.grants[k].user], "dropTotp")
    /\ UNCHANGED <<held, nextId, control>>
DisableUserTotp(s) ==
    /\ At(s, "dropTotp")
    /\ db' = DeleteTotp(db, IF Rq(s).op = "dropTotp" THEN Rq(s).on ELSE calls[s].user)
    /\ Finish(s)
    /\ UNCHANGED <<held, nextId, log, control>>

(* Passkeys: a challenge is kept per ceremony and taken when it is answered. *)
SaveChallenge(s, user, kind) ==
    /\ db' = Issue(db, kind, user, None) /\ nextId' = nextId + 1
    /\ Finish(s)
    /\ UNCHANGED <<held, log, control>>
RegistrationStart(s) == At(s, "passkeyNew") /\ SaveChallenge(s, Rq(s).by, "registration")
AuthenticationStart(s) == At(s, "passkeyStart") /\ SaveChallenge(s, None, "authentication")
RegistrationFinish(s) ==
    /\ At(s, "passkeyAdd")
    /\ \/ \E k \in DOMAIN db.grants :
            /\ ConsumeChallenge(k, Rq(s).by, "registration")
            /\ db' = InsertPasskey(Consume(db, k), Rq(s).by, k)
            /\ Used(k)
       \/ Fresh("registration") = {} /\ UNCHANGED <<db, log>>
    /\ Finish(s)
    /\ UNCHANGED <<held, nextId, control>>
AuthenticationFinish(s) ==
    /\ At(s, "passkeyLogin")
    /\ \/ \E k \in DOMAIN db.grants :
            /\ ConsumeChallenge(k, None, "authentication")
            /\ db' = Consume(db, k) /\ Used(k)
            /\ IF User(Rq(s).by).passkeys # {} /\ ~User(Rq(s).by).withdrawn
               THEN Goto(s, [calls[s] EXCEPT !.user = Rq(s).by], "finish") ELSE Finish(s)
       \/ Fresh("authentication") = {} /\ Finish(s) /\ UNCHANGED <<db, log>>
    /\ UNCHANGED <<held, nextId, control>>
DeletePasskey(s) ==
    /\ At(s, "passkeyDelete")
    /\ \E k \in User(Rq(s).by).passkeys \cup {None} : db' = DeletePasskeyRow(db, Rq(s).by, k)
    /\ Finish(s)
    /\ UNCHANGED <<held, nextId, log, control>>

-----------------------------------------------------------------------------
(* Passwords, e-mail addresses, leaving: auth.rs, account.rs *)

(* Counted, then inserted: two requests may both be the last one.            *)
RequestPasswordReset(s) ==
    /\ At(s, "requestReset")
    /\ LET us == FindIdByEmail(Rq(s).email)
       IN  IF us = {} \/ \E u \in us : CountActiveByUser(u) >= MaxActive THEN Finish(s)
           ELSE Goto(s, [calls[s] EXCEPT !.user = CHOOSE u \in us : TRUE], "issueReset")
    /\ UNCHANGED <<db, held, nextId, log, control>>
IssueReset(s) ==
    /\ At(s, "issueReset")
    /\ db' = Issue(db, "reset", calls[s].user, None) /\ nextId' = nextId + 1
    /\ Finish(s)
    /\ UNCHANGED <<held, log, control>>
(* The token is marked and the password replaced in one transaction.         *)
ConsumeAndUpdatePassword(d, k, pw) == UpdatePasswordHash([d EXCEPT !.grants[k].used = TRUE, !.grants[k].data = now], d.grants[k].user, pw)
ResetPassword(s) ==
    /\ At(s, "reset")
    /\ \/ \E k \in Fresh("reset") :
            /\ db' = ConsumeAndUpdatePassword(db, k, Rq(s).secret)
            /\ log' = [log EXCEPT !.uses = Put(@, k, 1 + IF k \in DOMAIN @ THEN @[k] ELSE 0),
                                  !.cuts = @ \cup {[user |-> db.grants[k].user, at |-> now]}]
       \/ Fresh("reset") = {} /\ UNCHANGED <<db, log>>
    /\ Finish(s)
    /\ UNCHANGED <<held, nextId, control>>
(* The current password is read and compared, then replaced.                 *)
ChangePassword(s) ==
    /\ At(s, "changePassword")
    /\ IF User(Rq(s).by).pw = Rq(s).secret THEN Goto(s, calls[s], "newPassword") ELSE Finish(s)
    /\ UNCHANGED <<db, held, nextId, log, control>>
NewPassword(s) ==
    /\ At(s, "newPassword")
    /\ db' = UpdatePasswordHash(db, Rq(s).by, Rq(s).new)
    /\ Cut([user |-> Rq(s).by, at |-> now])
    /\ Finish(s)
    /\ UNCHANGED <<held, nextId, control>>
RevokeAllSessions(s) ==
    /\ At(s, "revokeAll")
    /\ db' = RevokeAllTokens(db, Rq(s).by)
    /\ Cut([user |-> Rq(s).by, at |-> now])
    /\ Finish(s)
    /\ UNCHANGED <<held, nextId, control>>
RequestEmailChange(s) ==
    /\ At(s, "requestChange")
    /\ IF EmailExists(Rq(s).email) THEN UNCHANGED <<db, nextId>>
       ELSE db' = Issue(db, "change", Rq(s).by, Rq(s).email) /\ nextId' = nextId + 1
    /\ Finish(s)
    /\ UNCHANGED <<held, log, control>>
(* The token is spent; the address may have been taken since it was asked.   *)
ConfirmEmailChange(s) ==
    /\ At(s, "confirmChange")
    /\ \/ Fresh("change") = {} /\ Finish(s) /\ UNCHANGED <<db, log>>
       \/ \E k \in DOMAIN db.grants :
            /\ ConsumeEmailChange(k)
            /\ db' = Consume(db, k) /\ Used(k)
            /\ IF EmailExists(db.grants[k].data) THEN Finish(s)
               ELSE Goto(s, [calls[s] EXCEPT !.user = db.grants[k].user, !.email = db.grants[k].data], "updateEmail")
    /\ UNCHANGED <<held, nextId, control>>
SetEmail(s) ==
    /\ At(s, "updateEmail")
    /\ db' = IF EmailExists(calls[s].email) THEN db ELSE UpdateEmail(db, calls[s].user, calls[s].email)
    /\ Finish(s)
    /\ UNCHANGED <<held, nextId, log, control>>
Withdraw(s) ==
    /\ At(s, "withdraw")
    /\ db' = WithdrawLocalActor(db, Rq(s).by)
    /\ Finish(s)
    /\ UNCHANGED <<held, nextId, log, control>>

-----------------------------------------------------------------------------
(* Tokens for other programs: account.rs, mastodon/oauth.rs, miauth.rs,       *)
(* misskey/app_auth.rs                                                      *)

InsertAppToken(d, u, app, hashed) == [d EXCEPT !.appTokens = @ \cup {Recorded(nextId, u, app, hashed)}]
CreateAppToken(s) ==
    /\ At(s, "createToken")
    /\ db' = InsertAppToken(db, Rq(s).by, None, FALSE)
    /\ held' = held \cup {GenerateAppToken(Rq(s).by)}
    /\ nextId' = nextId + 1
    /\ Finish(s)
    /\ UNCHANGED <<log, control>>
Revoked(d, x) == [d EXCEPT !.appTokens = (@ \ {x}) \cup {[x EXCEPT !.revoked = TRUE]}]
RevokeAppToken(s) ==
    /\ At(s, "revokeToken")
    /\ \/ \E x \in {x \in db.appTokens : x.user = Rq(s).by /\ ~x.revoked} : db' = Revoked(db, x) /\ Cut([id |-> x.id])
       \/ {x \in db.appTokens : x.user = Rq(s).by /\ ~x.revoked} = {} /\ UNCHANGED <<db, log>>
    /\ Finish(s)
    /\ UNCHANGED <<held, nextId, control>>

(* oauth_apps holds the apps of both flows.                                  *)
CreateApp(s) ==
    /\ At(s, "createApp")
    /\ db' = [db EXCEPT !.apps = @ \cup {Rq(s).app}]
    /\ Finish(s)
    /\ UNCHANGED <<held, nextId, log, control>>
FindApp(app) == app \in db.apps
ValidateAuthorize(app) == FindApp(app)
InsertAuthorizationCode(u, app, challenge) == Issue(db, "code", u, [app |-> app, challenge |-> challenge])
Authorize(s) ==
    /\ At(s, "authorize")
    /\ IF ValidateAuthorize(Rq(s).app)
       THEN db' = InsertAuthorizationCode(Rq(s).by, Rq(s).app, Rq(s).challenge) /\ nextId' = nextId + 1
       ELSE UNCHANGED <<db, nextId>>
    /\ Finish(s)
    /\ UNCHANGED <<held, log, control>>
(* A wrong client secret is refused before the code is spent; a missing one  *)
(* is refused after, unless the code was bound to a challenge that is met.   *)
SecretRefused(r) == r.client = "wrong"
PkceOk(g, r) == IF g.data.challenge THEN r.verifier = "right" ELSE r.client = "right"
ExchangeCode(s) ==
    /\ At(s, "token")
    /\ LET r == Rq(s)
       IN  \/ /\ FindApp(r.app) /\ ~SecretRefused(r)
              /\ \E k \in DOMAIN db.grants :
                    /\ ConsumeAuthorizationCode(k, r.app)
                    /\ db' = Consume(db, k) /\ Used(k)
                    /\ IF PkceOk(db.grants[k], r) THEN Goto(s, [calls[s] EXCEPT !.user = db.grants[k].user], "appToken") ELSE Finish(s)
           \/ /\ ~FindApp(r.app) \/ SecretRefused(r) \/ \A k \in DOMAIN db.grants : ~ConsumeAuthorizationCode(k, r.app)
              /\ Finish(s) /\ UNCHANGED <<db, log>>
    /\ UNCHANGED <<held, nextId, control>>
(* The token is made and recorded; the client of the Misskey flow is given   *)
(* it too, and may send the hash of it with the app's secret.                *)
IssueAppToken(s) ==
    /\ At(s, "appToken")
    /\ LET u == calls[s].user
           hashed == calls[s].op = "userkey"
       IN  /\ db' = InsertAppToken(db, u, Rq(s).app, hashed)
           /\ held' = held \cup {GenerateAppToken(u)} \cup IF hashed THEN {Token("hash", u, nextId)} ELSE {}
    /\ nextId' = nextId + 1
    /\ Finish(s)
    /\ UNCHANGED <<log, control>>
RevokeAppTokenByApp(app, x) == x.app = app /\ ~x.revoked
(* RFC 7009: an app takes back a token of its own; a hash is not a JWT and   *)
(* is left alone.                                                           *)
RevokeOAuthToken(s) ==
    /\ At(s, "revoke")
    /\ LET r == Rq(s)
           own == {x \in db.appTokens : RevokeAppTokenByApp(r.app, x)}
       IN  \/ r.client = "right" /\ \E x \in own : db' = Revoked(db, x) /\ Cut([id |-> x.id])
           \/ (r.client # "right" \/ own = {}) /\ UNCHANGED <<db, log>>
    /\ Finish(s)
    /\ UNCHANGED <<held, nextId, control>>

CreateMisskeyAuthSession(app) == Issue(db, "auth", None, app)
SessionGenerate(s) ==
    /\ At(s, "generate")
    /\ IF FindApp(Rq(s).app) THEN db' = CreateMisskeyAuthSession(Rq(s).app) /\ nextId' = nextId + 1 ELSE UNCHANGED <<db, nextId>>
    /\ Finish(s)
    /\ UNCHANGED <<held, log, control>>
(* Only the first user to approve is taken.                                  *)
ApproveMisskeyAuthSession(k, u) == k \in Fresh("auth") /\ db.grants[k].user \in {None, u}
SessionAuthorize(s) ==
    /\ At(s, "approve")
    /\ \/ \E k \in DOMAIN db.grants : ApproveMisskeyAuthSession(k, Rq(s).by) /\ db' = [db EXCEPT !.grants[k].user = Rq(s).by]
       \/ (\A k \in DOMAIN db.grants : ~ApproveMisskeyAuthSession(k, Rq(s).by)) /\ UNCHANGED db
    /\ Finish(s)
    /\ UNCHANGED <<held, nextId, log, control>>
SessionUserkey(s) ==
    /\ At(s, "userkey")
    /\ LET app == Rq(s).app
       IN  \/ \E k \in DOMAIN db.grants :
                /\ FindApp(app) /\ ConsumeMisskeyAuthSession(k, app)
                /\ db' = Consume(db, k) /\ Used(k)
                /\ Goto(s, [calls[s] EXCEPT !.user = db.grants[k].user], "appToken")
           \/ /\ ~FindApp(app) \/ \A k \in DOMAIN db.grants : ~ConsumeMisskeyAuthSession(k, app)
              /\ Finish(s) /\ UNCHANGED <<db, log>>
    /\ UNCHANGED <<held, nextId, control>>

(* MiAuth keeps its sessions in memory: a token is made for the session the  *)
(* client chose, and whoever asks for the session first is given it.         *)
MiauthAuthorize(s) ==
    /\ At(s, "miauth")
    /\ db' = [InsertAppToken(db, Rq(s).by, None, FALSE)
                EXCEPT !.grants = Put(@, Rq(s).app, [Grant("miauth", Rq(s).by, GenerateAppToken(Rq(s).by)) EXCEPT !.exp = None])]
    /\ nextId' = nextId + 1
    /\ Finish(s)
    /\ UNCHANGED <<held, log, control>>
MiauthCheck(s) ==
    /\ At(s, "check")
    /\ LET k == Rq(s).app
       IN  IF k \in DOMAIN db.grants
           THEN /\ db' = Consume(db, k) /\ Used(db.grants[k].data.id)
                /\ held' = held \cup {db.grants[k].data}
           ELSE UNCHANGED <<db, log, held>>
    /\ Finish(s)
    /\ UNCHANGED <<nextId, control>>

-----------------------------------------------------------------------------
(* AT sessions: xrpc/server.rs *)

HasPassword(u, secret) == \E x \in db.appPasswords : x.user = u /\ x.secret = secret
CreateSession(s) ==
    /\ At(s, "createSession")
    /\ IF CheckIpNotBlocked(Rq(s).ip) THEN Lookup(s, "login", Rq(s).ident, Rq(s).secret) ELSE Finish(s)
    /\ UNCHANGED <<db, held, nextId, log, control>>
(* Read only now: the main password, or an app password; with mail set up,    *)
(* a code as well.                                                          *)
MainPassword(u) == IF User(u).withdrawn THEN None ELSE User(u).pw
VerifySessionPassword(s) ==
    /\ At(s, "verify") /\ calls[s].op = "createSession"
    /\ log' = [log EXCEPT !.tried = @ \cup {Tried(s)}]
    /\ LET c == [calls[s] EXCEPT !.hash = IF calls[s].user = None THEN None ELSE MainPassword(calls[s].user)]
           ok == c.user # None /\ (c.hash = c.secret \/ HasPassword(c.user, c.secret))
       IN  IF ~ok THEN Finish(s) /\ UNCHANGED <<db, nextId>>
           ELSE IF ~db.settings.smtp THEN Goto(s, c, "session") /\ UNCHANGED <<db, nextId>>
           ELSE IF ~c.req.token
           THEN db' = Issue(db, "short", c.user, None) /\ nextId' = nextId + 1 /\ Finish(s)
           ELSE Goto(s, c, "shortFind") /\ UNCHANGED <<db, nextId>>
    /\ UNCHANGED <<held, control>>
(* consume: the code is looked for, then every code of the purpose is deleted. *)
ShortCodesOf(u) == {k \in DOMAIN db.grants : db.grants[k].kind = "short" /\ db.grants[k].user = u}
FindShortCode(s) ==
    /\ At(s, "shortFind")
    /\ \E k \in (Fresh("short") \cap ShortCodesOf(calls[s].user)) \cup {None} : Goto(s, [calls[s] EXCEPT !.key = k], "shortDelete")
    /\ UNCHANGED <<db, held, nextId, log, control>>
DeleteShortCodes(s) ==
    /\ At(s, "shortDelete")
    /\ db' = [db EXCEPT !.grants = Drop(@, ShortCodesOf(calls[s].user))]
    /\ IF calls[s].key = None THEN Finish(s) ELSE Goto(s, calls[s], "session")
    /\ UNCHANGED <<held, nextId, log, control>>
GenerateAtpSession(u, privileged) == [kind |-> "refresh", user |-> u, id |-> nextId, privileged |-> privileged]
InsertRefreshToken(d, u) == [d EXCEPT !.refresh = @ \cup {[id |-> nextId, user |-> u, revoked |-> FALSE]}]
(* Privileged, when it was the main password.                                *)
IssueSession(s) ==
    /\ At(s, "session")
    /\ LET c == calls[s]
       IN  /\ db' = InsertRefreshToken(db, c.user)
           /\ held' = held \cup {GenerateAtpSession(c.user, IF c.op = "refresh" THEN c.row.privileged ELSE c.hash = c.secret)}
    /\ nextId' = nextId + 1
    /\ Finish(s)
    /\ UNCHANGED <<log, control>>
RefreshTokens(u) == {t \in held : t.kind = "refresh" /\ t.user = u}
FindValidRefreshToken(t) == \E x \in db.refresh : x.id = t.id /\ ~x.revoked
RevokeRefreshToken(d, t) == [d EXCEPT !.refresh = {IF x.id = t.id THEN [x EXCEPT !.revoked = TRUE] ELSE x : x \in @}]
(* Found, then revoked, then replaced.                                       *)
RefreshSession(s) ==
    /\ At(s, "refresh")
    /\ \/ \E t \in RefreshTokens(Rq(s).by) :
            IF FindValidRefreshToken(t) THEN Goto(s, [calls[s] EXCEPT !.user = Rq(s).by, !.row = t], "rotate") ELSE Finish(s)
       \/ RefreshTokens(Rq(s).by) = {} /\ Finish(s)
    /\ UNCHANGED <<db, held, nextId, log, control>>
RotateSession(s) ==
    /\ At(s, "rotate")
    /\ db' = RevokeRefreshToken(db, calls[s].row)
    /\ Goto(s, calls[s], "session")
    /\ UNCHANGED <<held, nextId, log, control>>
DeleteSession(s) ==
    /\ At(s, "deleteSession")
    /\ \/ \E t \in RefreshTokens(Rq(s).by) : db' = RevokeRefreshToken(db, t)
       \/ RefreshTokens(Rq(s).by) = {} /\ UNCHANGED db
    /\ Finish(s)
    /\ UNCHANGED <<held, nextId, log, control>>
(* The access token of a session is a JWT of its own with the same flag.     *)
DeactivateAccount(s) ==
    /\ At(s, "deactivate")
    /\ db' = IF \E t \in RefreshTokens(Rq(s).by) : t.privileged THEN [db EXCEPT !.users[Rq(s).by].moved = TRUE] ELSE db
    /\ Finish(s)
    /\ UNCHANGED <<held, nextId, log, control>>
InsertAppPassword(d, u, secret) == [d EXCEPT !.appPasswords = @ \cup {[user |-> u, secret |-> secret]}]
CreateAppPassword(s) ==
    /\ At(s, "createPassword")
    /\ db' = InsertAppPassword(db, Rq(s).by, Rq(s).new)
    /\ Finish(s)
    /\ UNCHANGED <<held, nextId, log, control>>
DropAppPassword(d, u, secret) == [d EXCEPT !.appPasswords = @ \ {[user |-> u, secret |-> secret]}]
RevokeAppPassword(s) ==
    /\ At(s, "revokePassword")
    /\ db' = DropAppPassword(db, Rq(s).by, Rq(s).new)
    /\ Finish(s)
    /\ UNCHANGED <<held, nextId, log, control>>

-----------------------------------------------------------------------------
(* Administration: admin/users.rs, admin/auth_ip_blocks.rs, admin/site_settings.rs *)

SuspendUser(s) ==
    /\ At(s, "suspend") /\ db' = SetSuspended(db, Rq(s).on, TRUE)
    /\ Finish(s)
    /\ UNCHANGED <<held, nextId, log, control>>
UnsuspendUser(s) ==
    /\ At(s, "unsuspend") /\ db' = SetSuspended(db, Rq(s).on, FALSE)
    /\ Finish(s)
    /\ UNCHANGED <<held, nextId, log, control>>
ChangeUserRole(s) ==
    /\ At(s, "setRole")
    /\ db' = IF Rq(s).new \in {"quarantine", "silence", "user", "moderator", "emoji-editor", "admin"}
             THEN UpdateRole(db, Rq(s).on, Rq(s).new) ELSE db
    /\ Finish(s)
    /\ UNCHANGED <<held, nextId, log, control>>
UnblockIp(s) ==
    /\ At(s, "unblock")
    /\ db' = [db EXCEPT !.blocks = Drop(@, {Rq(s).on})]
    /\ Finish(s)
    /\ UNCHANGED <<held, nextId, log, control>>
(* Key by key, each its own statement: the rest are still the old ones.      *)
UpdateSiteSettings(s) ==
    /\ At(s, "settings")
    /\ LET differ == {k \in DOMAIN db.settings : db.settings[k] # Rq(s).config[k]}
       IN  IF differ = {} THEN Finish(s) /\ UNCHANGED db
           ELSE \E k \in differ : db' = [db EXCEPT !.settings[k] = Rq(s).config[k]] /\ UNCHANGED calls
    /\ UNCHANGED <<held, nextId, log, control>>

-----------------------------------------------------------------------------
Tick ==
    /\ now < script.ticks
    /\ now' = now + 1
    /\ UNCHANGED <<db, held, todo, script, crashes, nextId, calls, log>>
(* The process ends: requests are gone, and so are MiAuth's sessions.        *)
Stop ==
    /\ crashes < script.crashes /\ crashes' = crashes + 1
    /\ calls' = [s \in Calls |-> NoCall]
    /\ db' = [db EXCEPT !.grants = Drop(@, {k \in DOMAIN @ : @[k].kind = "miauth"})]
    /\ UNCHANGED <<held, now, todo, script, nextId, log>>

Init ==
    /\ script \in Scripts
    /\ db = script.db
    /\ held = script.held
    /\ now = 1 /\ nextId = 100
    /\ calls = [s \in Calls |-> NoCall]
    /\ todo = script.requests
    /\ crashes = 0
    /\ log = [uses |-> <<>>, tried |-> {}, accepted |-> {}, cuts |-> {}, made |-> {}]

RegistrationStep(s) ==
    Open(s) \/ RequestEmailVerification(s) \/ Register(s) \/ ResolveRegistrationEmail(s) \/ EnsureAccountAvailable(s)
    \/ RegisterAccount(s) \/ CancelRegistration(s) \/ Setup(s) \/ SetupCreate(s)
LoginStep(s) ==
    \/ RecordAttempt(s) \/ CheckAndRecordCredentialAttempt(s) \/ RecordIpRejectionAndMaybeBlock(s)
    \/ Login(s) \/ VerifyPassword(s) \/ FinishLogin(s) \/ Me(s) \/ TotpVerify(s) \/ VerifyCode(s) \/ UseRecoveryCode(s)
FactorStep(s) ==
    \/ TotpSetup(s) \/ TotpUpsert(s) \/ TotpEnable(s) \/ EnableWithRecoveryCodes(s) \/ TotpDisable(s)
    \/ TotpRequestDisableEmail(s) \/ TotpConfirmDisable(s) \/ DisableUserTotp(s)
    \/ RegistrationStart(s) \/ AuthenticationStart(s) \/ RegistrationFinish(s) \/ AuthenticationFinish(s) \/ DeletePasskey(s)
AccountStep(s) ==
    \/ RequestPasswordReset(s) \/ IssueReset(s) \/ ResetPassword(s) \/ ChangePassword(s) \/ NewPassword(s) \/ RevokeAllSessions(s)
    \/ RequestEmailChange(s) \/ ConfirmEmailChange(s) \/ SetEmail(s) \/ Withdraw(s)
TokenStep(s) ==
    \/ CreateAppToken(s) \/ RevokeAppToken(s) \/ CreateApp(s) \/ Authorize(s) \/ ExchangeCode(s) \/ IssueAppToken(s) \/ RevokeOAuthToken(s)
    \/ SessionGenerate(s) \/ SessionAuthorize(s) \/ SessionUserkey(s) \/ MiauthAuthorize(s) \/ MiauthCheck(s)
SessionStep(s) ==
    \/ CreateSession(s) \/ VerifySessionPassword(s) \/ FindShortCode(s) \/ DeleteShortCodes(s) \/ IssueSession(s)
    \/ RefreshSession(s) \/ RotateSession(s) \/ DeleteSession(s) \/ DeactivateAccount(s) \/ CreateAppPassword(s) \/ RevokeAppPassword(s)
AdminStep(s) == SuspendUser(s) \/ UnsuspendUser(s) \/ ChangeUserRole(s) \/ UnblockIp(s) \/ UpdateSiteSettings(s)
Next ==
    \/ \E s \in Calls :
        \/ Start(s) \/ Authenticate(s) \/ VerifyTokenIgnoringExp(s) \/ RegistrationStep(s) \/ LoginStep(s) \/ FactorStep(s) \/ AccountStep(s)
        \/ TokenStep(s) \/ SessionStep(s) \/ AdminStep(s)
    \/ Tick \/ Stop
Spec == Init /\ [][Next]_vars

-----------------------------------------------------------------------------
(* Properties *)

Idle == \A s \in Calls : calls[s] = NoCall

(* However requests are interleaved, no more than MaxVariants different      *)
(* secrets are compared for one identifier, or identifiers for one secret,   *)
(* in a window that no login or reset ended (record first, then count:       *)
(* check_and_record_credential_attempt).                                    *)
GuessesBounded ==
    \A x \in log.tried :
        LET before == {y \in log.tried : y.kind = x.kind /\ y.id <= x.id}
        IN  /\ Cardinality({y.secret : y \in {y \in before : y.ident = x.ident /\ y.at >= x.since}}) <= MaxVariants
            /\ Cardinality({y.ident : y \in {y \in before : y.secret = x.secret /\ y.at >= x.at - Window}}) <= MaxVariants

(* A mailed link, a recovery code, an OAuth code, a passkey challenge or an  *)
(* approved session has its effect once, however many calls bring it.  Not   *)
(* so the mailed digits of an AT session, which are looked for first and      *)
(* deleted then (email_short_code.rs consume), nor the digits of an app,      *)
(* which nothing marks as used.                                             *)
UsedOnce == \A k \in DOMAIN log.uses : log.uses[k] = 1

(* No address makes more than IpMax accounts in a window, and only accounts  *)
(* that were made count: what a failed registration reserved is given back.  *)
(* max_user_accounts, which is checked first only, is passed by no more than *)
(* the registrations under way (architecture.md).                            *)
QuotaHolds ==
    /\ \A m \in log.made : m.ip # None =>
        Cardinality({x \in log.made : x.ip = m.ip /\ x.at <= m.at /\ x.at >= m.at - Window}) <= IpMax
    /\ Idle /\ crashes = 0 => Cardinality(db.creations) = Cardinality({m \in log.made : m.ip # None})
    /\ MaxAccounts > 0 /\ log.made # {} => Cardinality(Users) <= MaxAccounts - 1 + Cardinality(Calls)

(* Where extract_auth decides: after a new password, a reset or "revoke all", *)
(* a JWT of an earlier second opens nothing, and a token taken back by its    *)
(* user or its app never does, as JWT or as hash.  The WebSocket of           *)
(* /api/streaming and the token in an upload's form are not behind it; they  *)
(* still open (VerifyTokenIgnoringExp).                                     *)
RevokedRefused ==
    \A a \in log.accepted : a.by = "extract_auth" =>
        \A c \in a.cuts :
            IF "id" \in DOMAIN c THEN c.id # a.token.id
            ELSE c.user = a.token.user /\ a.token.kind # "hash" => a.token.iat >= c.at
=============================================================================
