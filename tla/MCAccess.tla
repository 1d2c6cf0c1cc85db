------------------------------ MODULE MCAccess ------------------------------
(* SubscribeRepos, Accounts and Migration in one run: one of them takes steps, *)
(* the first stays in its initial state, the others have no value.           *)
EXTENDS SubscribeRepos, TLC
ASSUME BroadcastersAssumption /\ PageSizeAssumption /\ CapacityAssumption

CONSTANTS None, w1, w3, address, knownApp, other, session, movedDid,
    Parts, AccountScripts, MigrationScripts     \* which of them run

VARIABLES which,
    db, held, now, nextId, calls, todo, script, crashes, uses,
    tables, net, queue, steps, asked, moving, budget, lastId, past
accounts == <<db, held, now, nextId, calls, todo, script, crashes, uses>>
migration == <<tables, net, queue, steps, asked, moving, budget, lastId, past>>
(* Windows of one second, and limits of one.                                 *)
A == INSTANCE Accounts WITH
        Scripts <- AccountScripts, Calls <- {1, 2}, Window <- 1, Ttl <- 2, BlockTime <- 1, MaxAccounts <- 5, IpMax <- 1,
        MaxVariants <- 1, BlockThreshold <- 1, MaxActive <- 1, RecoveryCodes <- 1, log <- uses
M == INSTANCE Migration WITH
        Scripts <- MigrationScripts, Calls <- {1, 2}, MaxAttempts <- 2, db <- tables, calls <- steps, todo <- asked, script <- moving,
        nextId <- lastId, log <- past

-----------------------------------------------------------------------------
(* Accounts: an administrator, a user and newcomers; each script is a handful *)
(* of requests that meet.                                                   *)

MCUser(name, role, pw) ==
    [email |-> name, name |-> name, pw |-> pw, role |-> role, validAfter |-> None, lastLogin |-> None, withdrawn |-> FALSE,
     suspended |-> FALSE, moved |-> FALSE, totp |-> None, passkeys |-> {}]
(* 1: the administrator; 2: a user with a second factor; 3: a plain user.    *)
MCUsers ==
    1 :> MCUser("root", "admin", "r") @@
    2 :> [MCUser("bea", "user", "b") EXCEPT !.totp = [key |-> 9, enabled |-> TRUE], !.passkeys = {8}] @@
    3 :> MCUser("cal", "user", "c")
MCRecovery == 20 :> [kind |-> "recovery", user |-> 2, data |-> None, exp |-> None, used |-> FALSE]
MCOld(u, id) == [kind |-> "session", user |-> u, iat |-> 0, id |-> id]
MCDb(users) ==
    [users |-> users, grants |-> MCRecovery, appTokens |-> {}, refresh |-> {}, appPasswords |-> {}, apps |-> {knownApp},
     attempts |-> {}, creations |-> {}, blocks |-> <<>>,
     settings |-> [closed |-> FALSE, verify |-> FALSE, smtp |-> FALSE]]
MCHeld == {MCOld(1, 11), MCOld(2, 12), MCOld(3, 13), [kind |-> "secret", user |-> 2, key |-> 9]}

Req(op, u) ==
    [op |-> op, by |-> u, ip |-> address, ident |-> None, secret |-> None, new |-> None, email |-> None, name |-> None, token |-> FALSE,
     app |-> knownApp, client |-> "right", challenge |-> FALSE, verifier |-> None, on |-> None, config |-> None, nth |-> 0]
(* The same request, brought again.                                          *)
Again(r) == [r EXCEPT !.nth = 1]
Twice(r) == {r, Again(r)}
Script(requests, nticks, ncrashes, d) == [requests |-> requests, ticks |-> nticks, crashes |-> ncrashes, db |-> d, held |-> MCHeld]
Base == MCDb(MCUsers)

Guess(op, ident, secret) == [Req(op, None) EXCEPT !.ident = ident, !.secret = secret]
Joining(name) == [Req("register", None) EXCEPT !.name = name, !.email = name, !.secret = "n"]

MCGuess ==
    {Script({Guess("login", "cal", "x"), Guess("login", "cal", "y"), Guess("createSession", "cal", "c"), Guess("login", "bea", "y")},
            2, 0, Base)}
MCBlocked ==
    {Script({Guess("login", "cal", "x"), Guess("login", "cal", "y"), [Guess("login", "cal", "z") EXCEPT !.ip = None], Joining("dee"),
             [Req("unblock", 1) EXCEPT !.on = address]}, 1, 0, Base)}
MCJoin ==
    {Script({Joining("dee"), [Joining("dee") EXCEPT !.email = "d2"], Joining("eve"),
             [Joining("fay") EXCEPT !.ip = x]}, 2, 1, Base) : x \in {address, None}}
MCVerified ==
    {Script({[Req("verifyEmail", None) EXCEPT !.email = "dee"], [Req("verifyEmail", None) EXCEPT !.email = "dee", !.nth = 1],
             [Joining("dee") EXCEPT !.token = TRUE], [Joining("dd") EXCEPT !.token = TRUE],
             [Req("settings", 1) EXCEPT !.config = [closed |-> TRUE, verify |-> v, smtp |-> FALSE]]}, 1, 0,
            [Base EXCEPT !.settings.verify = v]) : v \in BOOLEAN}
MCSetup ==
    {Script({[Joining("root") EXCEPT !.op = "setup"], [Joining("root") EXCEPT !.op = "setup", !.email = e], Joining("dee")}, 2, 0,
            MCDb(<<>>)) : e \in {"root2"}}
MCFactor ==
    {Script({Guess("login", "bea", "b"), [Req("totpVerify", 2) EXCEPT !.secret = a],
             [Req("totpVerify", 2) EXCEPT !.secret = b, !.nth = 1], [Req("totpDisable", 2) EXCEPT !.secret = "b"]}, 1, 0, Base) :
        a \in {"digits", "recovery"}, b \in {"recovery", "guess"}}
MCFactorNew ==
    {Script({Req("totpSetup", u), Again(Req("totpSetup", u)), Req("totpEnable", u), Again(Req("totpEnable", u)),
             [Req("dropTotp", 1) EXCEPT !.on = u]}, 1, 0, Base) : u \in {2, 3}}
MCFactorLost ==
    {Script({Guess("login", "bea", "b"), Req("requestDisable", 2), Req("confirmDisable", 2), Again(Req("confirmDisable", 2))}, 3, 0, Base)}
MCPasskey ==
    {Script({Req("passkeyNew", 3), Req("passkeyAdd", 3), Again(Req("passkeyAdd", 3)), Req("passkeyDelete", 3)}, 3, 0, Base),
     Script({Req("passkeyStart", None), Req("passkeyLogin", 2), Again(Req("passkeyLogin", 2)), Req("me", 2)}, 3, 0, Base)}
MCReset ==
    {Script(Twice([Req("requestReset", None) EXCEPT !.email = "cal"])
            \cup Twice([Req("reset", None) EXCEPT !.secret = "c2"]) \cup {Req("me", 3)}, 2, 0, Base)}
MCPassword ==
    {Script({[Req("changePassword", 3) EXCEPT !.secret = "c", !.new = "c2"], Req("me", 3), Again(Req("me", 3)),
             Guess("login", "cal", "c")}, 2, 0, Base)} \cup
    {Script({Req("revokeAll", 3), Req("createToken", 3), Req("me", 3), Again(Req("me", 3))}, 2, 0, Base)}
MCEmail ==
    {Script({[Req("requestChange", 3) EXCEPT !.email = "dee"], Req("confirmChange", 3), Again(Req("confirmChange", 3)), Joining("dee"),
             Req("withdraw", 3)}, 2, 0, Base)}
MCOAuth ==
    {Script({[Req("authorize", 3) EXCEPT !.challenge = h], [Req("token", None) EXCEPT !.client = x, !.verifier = y],
             [Req("token", None) EXCEPT !.client = x, !.verifier = y, !.nth = 1], Req("revoke", None),
             [Req("authorize", 3) EXCEPT !.app = other]}, 1, 0, Base) :
        h \in BOOLEAN, x \in {"right", "wrong", None}, y \in {"right", None}}
MCUserkey ==
    {Script({[Req("createApp", None) EXCEPT !.app = other], [Req("generate", None) EXCEPT !.app = other], [Req("approve", 3) EXCEPT !.app = other],
             Again([Req("approve", 2) EXCEPT !.app = other]), [Req("userkey", None) EXCEPT !.app = other],
             Again([Req("userkey", None) EXCEPT !.app = other])}, 1, 0, Base),
     Script({Req("createToken", 3), Req("revokeToken", 3), Req("stream", 3), Req("upload", 3)}, 1, 0, Base),
     Script({Req("generate", None), Req("approve", 3), Req("userkey", None), Req("revokeToken", 3), Req("me", 3)}, 1, 0, Base)}
MCMiauth ==
    {Script({[Req("miauth", 3) EXCEPT !.app = session], [Req("check", None) EXCEPT !.app = session],
             Again([Req("check", None) EXCEPT !.app = session]), Req("createToken", 3), Req("revokeToken", 3), Req("me", 3)}, 1, 1, Base)}
MCSession ==
    {Script({Guess("createSession", "cal", "c"), [Guess("createSession", "cal", "c") EXCEPT !.token = TRUE],
             [Guess("createSession", "cal", "c") EXCEPT !.token = TRUE, !.nth = 1], Req("refresh", 3)}, 1, 0,
            [Base EXCEPT !.settings.smtp = TRUE]),
     Script({Guess("createSession", "cal", "c"), Req("refresh", 3), Again(Req("refresh", 3)), Req("deleteSession", 3), Req("deactivate", 3)}, 1, 0, Base),
     Script({[Req("createPassword", 3) EXCEPT !.new = "ap"], Guess("createSession", "cal", "ap"), Req("deactivate", 3),
             [Req("revokePassword", 3) EXCEPT !.new = "ap"]}, 1, 0, Base)}
MCAdmin ==
    {Script({[Req("suspend", 1) EXCEPT !.on = 3], [Req("unsuspend", 1) EXCEPT !.on = 3], Req("createToken", 3), Req("me", 3), Req("me", 4)}, 1, 0, Base),
     Script({[Req("setRole", 1) EXCEPT !.on = 3, !.new = "admin"], [Req("setRole", 1) EXCEPT !.on = 3, !.new = "no such role"],
             [Req("setRole", 3) EXCEPT !.on = 1, !.new = "silence"],
             [Req("settings", 1) EXCEPT !.config = [closed |-> TRUE, verify |-> TRUE, smtp |-> TRUE]]}, 1, 0, Base)}
MCScripts ==
    MCGuess \cup MCBlocked \cup MCJoin \cup MCVerified \cup MCSetup \cup MCFactor \cup MCFactorNew \cup MCFactorLost \cup MCPasskey
    \cup MCReset \cup MCPassword \cup MCEmail \cup MCOAuth \cup MCUserkey \cup MCMiauth \cup MCSession \cup MCAdmin

-----------------------------------------------------------------------------
(* Migration: one source account with a post, a follow and a blob; a local     *)
(* account that moves out; newcomers.                                        *)

Ask(op) == [op |-> op, did |-> movedDid, name |-> "ann", email |-> "ann@", actor |-> None, code |-> TRUE, nth |-> 0]
MCSource == movedDid :> [records |-> {[key |-> 1, kind |-> "post"], [key |-> 2, kind |-> "follow"]}, blobs |-> {1}]
MCSmall == movedDid :> [records |-> {[key |-> 1, kind |-> "post"]}, blobs |-> {}]
MCOther == movedDid :> [records |-> {[key |-> 1, kind |-> "other"], [key |-> 2, kind |-> "nobody"]}, blobs |-> {}]
MCBroken == movedDid :> [records |-> {[key |-> 1, kind |-> "broken"]}, blobs |-> {}]
MCNothing == movedDid :> [records |-> {}, blobs |-> {}]
MovingActor(d, key, name, user) ==
    [did |-> d, key |-> key, name |-> name, user |-> user, local |-> TRUE, moved |-> FALSE, shown |-> FALSE]
(* Actor 1 has lived here all along, with DID and key 1.                     *)
MovingDb == [requests |-> <<>>, records |-> {}, blobs |-> {}, pending |-> <<>>, actors |-> 1 :> MovingActor(1, 1, "bea", 1), users |-> 1 :> "bea@",
         codes |-> {}, posts |-> <<>>, repo |-> {}, media |-> {}, follows |-> {}]
(* The source account was seen before: a remote actor and its post.          *)
MCSeen == [MovingDb EXCEPT !.actors = @ @@ 2 :> [MovingActor(movedDid, None, "src", None) EXCEPT !.local = FALSE],
                       !.posts = 3 :> [actor |-> 2, uri |-> <<movedDid, 1>>]]
MCNet == [plc |-> (movedDid :> [key |-> 0, head |-> 0]) @@ (1 :> [key |-> 1, head |-> 1]), txt |-> <<>>, published |-> {}, signed |-> {}, off |-> {},
          open |-> TRUE]
NoBudget == [b \in {"net", "db", "lost", "queue", "settings", "expiry", "crash", "closing"} |-> 0]
One(b) == [NoBudget EXCEPT ![b] = 1]
Moving(requests, source, bud, d) ==
    [requests |-> requests, source |-> source, budget |-> bud, db |-> d, net |-> MCNet, first |-> 10, cf |-> FALSE, smtp |-> TRUE, domain |-> TRUE,
     badCar |-> FALSE, backend |-> "redis"]
Cf(x) == [x EXCEPT !.cf = TRUE]
Memory(x) == [x EXCEPT !.backend = "memory"]

Whole == {Ask("start"), Ask("token")}
MCWhole ==
    {Moving(Whole, MCSource, One(b), d) : b \in {"net", "db", "queue", "crash"}, d \in {MovingDb, MCSeen}}
    \cup {Memory(Moving(Whole, MCSource, One("crash"), MovingDb)), Moving(Whole, MCOther, One("crash"), MovingDb)}
    \cup {[Moving(Whole, MCNothing, NoBudget, MovingDb) EXCEPT !.badCar = TRUE], Moving(Whole, MCBroken, NoBudget, MovingDb),
          Moving(Whole, MCNothing, [NoBudget EXCEPT !.db = 2], MovingDb), Moving(Whole, MCNothing, One("closing"), MovingDb),
          Moving({[Ask("start") EXCEPT !.email = None]}, MCNothing, NoBudget, MovingDb)}
MCRetried ==
    {Moving(Whole \cup {Again(Ask("retry"))}, MCSmall, NoBudget, MovingDb),
     Moving(Whole \cup {Again(Ask("retry"))}, MCNothing, One("crash"), MovingDb),
     Moving(Whole \cup {Again(Ask("token"))}, MCNothing, One("crash"), MovingDb)}
MCTwoTokens ==
    {Moving(Whole \cup {Again(Ask("token")), Ask("abandon")}, MCNothing, [One("lost") EXCEPT !.expiry = 1], MovingDb)}
    \cup {Moving(Whole \cup {Again(Ask("token"))}, MCNothing, [One("net") EXCEPT !.expiry = 1], MovingDb)}
MCTxt ==
    {Cf(Moving(Whole \cup {Ask("abandon")}, MCNothing, One(b), MovingDb)) : b \in {"lost", "net", "settings", "expiry", "crash"}}
MCNewcomer ==
    {Cf(Moving({Ask("join")}, MCNothing, [One(b) EXCEPT !.net = 1], MovingDb)) : b \in {"lost", "db", "crash", "settings"}}
    \cup {Cf(Moving({Ask("join")}, MCNothing, One("expiry"), MovingDb)),
          [Moving({Ask("join")}, MCNothing, One("closing"), MovingDb) EXCEPT !.domain = FALSE]}
    \cup {Moving({Ask("join"), Again(Ask("join"))}, MCNothing, One(b), MovingDb) : b \in {"lost", "expiry"}}
MCRivals ==
    {Moving({Ask("start"), Ask("token"), [Ask("join") EXCEPT !.name = ne[1], !.email = ne[2]]}, MCNothing, NoBudget, MovingDb) :
        ne \in {<<"ann", "eve@">>, <<"eve", "ann@">>}}
    \cup {Moving({Ask("start"), [Ask("start") EXCEPT !.name = "eve"], Ask("token")}, MCNothing, NoBudget, MovingDb)}
Out(op) == [Ask(op) EXCEPT !.actor = 1]
MCOut ==
    {Moving({Out("code"), Out("sign"), Out("submitOp"), more}, MCNothing, One(b), MovingDb) :
        more \in {Again(Out("code")), [Out("sign") EXCEPT !.code = FALSE], Again(Out("submitOp"))}, b \in {"net", "lost", "db", "crash"}}
    \cup {[Moving({Out("code"), Out("sign"), Out("submitOp")}, MCNothing, NoBudget, MovingDb) EXCEPT !.smtp = FALSE]}
MCMigrationScripts == MCWhole \cup MCRetried \cup MCTwoTokens \cup MCTxt \cup MCNewcomer \cup MCRivals \cup MCOut
(* Nothing goes wrong.                                                      *)
MCPlain == {Moving(Whole, MCSmall, NoBudget, MovingDb)}

-----------------------------------------------------------------------------
NoAccounts ==
    /\ db = None /\ held = None /\ now = None /\ nextId = None /\ calls = None /\ todo = None /\ script = None
    /\ crashes = None /\ uses = None
NoMigration ==
    /\ tables = None /\ net = None /\ queue = None /\ steps = None /\ asked = None /\ moving = None /\ budget = None
    /\ lastId = None /\ past = None

MCInit ==
    \/ which = "accounts" /\ which \in Parts /\ A!Init /\ Init /\ NoMigration
    \/ which = "migration" /\ which \in Parts /\ M!Init /\ Init /\ NoAccounts
    \/ which = "relay" /\ which \in Parts /\ Init /\ NoAccounts /\ NoMigration
MCNext ==
    \/ which = "accounts" /\ A!Next /\ UNCHANGED <<which, vars, migration>>
    \/ which = "migration" /\ M!Next /\ UNCHANGED <<which, vars, accounts>>
    \/ which = "relay" /\ Next /\ UNCHANGED <<which, accounts, migration>>
(* The fairness of SubscribeRepos, when it runs.                             *)
MCFairness ==
    /\ WF_vars(which = "relay" /\ ReadPage) /\ WF_vars(which = "relay" /\ SendRow)
    /\ WF_vars(which = "relay" /\ EndPage) /\ WF_vars(which = "relay" /\ SendLive)
    /\ \A w \in Writers : /\ WF_vars(which = "relay" /\ StoreFrameAlone(w))
                          /\ WF_vars(which = "relay" /\ PublishToBus(w))
    /\ \A s \in 1 .. MaxIds : WF_vars(which = "relay" /\ BusDelivers(s))
MCSpec == MCInit /\ [][MCNext]_<<which, vars, accounts, migration>> /\ MCFairness

(* Attempts, grants and new accounts keep to their limits, and what was       *)
(* revoked passes no extract_auth, however requests are interleaved.         *)
AccessKept == which = "accounts" => A!GuessesBounded /\ A!UsedOnce /\ A!QuotaHolds /\ A!RevokedRefused
(* No key is lost and nothing points to a DID or a name that is not there     *)
(* yet, whatever fails or stops on the way.                                  *)
IdentityKept == which = "migration" => M!KeyKept /\ M!AccountMatches /\ M!TxtFirst
(* A migration ends with everything imported, and waits for no job that is    *)
(* not there.                                                               *)
ImportComplete == which = "migration" => M!ImportedAll /\ M!NoneWaits
(* jobs/at_migration.rs, its heading: the lock of a request is there against   *)
(* a job enqueued twice at start-up; so a request whose repository was        *)
(* fetched goes on to ask for the signature without anybody's help.          *)
SignatureAsked == which = "migration" => M!SignatureAsked
====
