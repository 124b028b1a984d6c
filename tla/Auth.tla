-------------------------------- MODULE Auth --------------------------------
(***************************************************************************)
(* The admin password in the NVS namespace nextube_sec, and the sessions   *)
(* it opens: auth.c and the handlers of web_server.c that call it.         *)
(* The web server answers one request at a time, so what interleaves with  *)
(* a handler is NVS: every key is written by itself, a write may fail, and *)
(* the power may go between two of them.                                   *)
(***************************************************************************)
EXTENDS Naturals, Sequences, FiniteSets, SequencesExt

CONSTANTS
  Pws, Clients,   \* passwords, browsers
  Slots,          \* SESSION_SLOTS
  LockoutMax      \* LOCKOUT_MAX

VARIABLES
  nvs,            \* admin_set, admin_salt, admin_hash, admin_iter
  slot,           \* s_sessions: the browser that holds the token, and the
                  \* password it logged in with (a history)
  order, stale,   \* the used slots, least recently seen first; how many of
                  \* these were last seen more than SESSION_TTL_US ago
  failed, locked, \* s_failed_count; s_lockout_until_us lies ahead
  job,            \* the NVS keys the handler has still to write, and for whom
  owner, unsure   \* histories: the password the owner was last told is set,
                  \* and whether a change of it has broken off since

vars == <<nvs, slot, order, stale, failed, locked, job, owner, unsure>>

None == "none"
Free == [who |-> None, pw |-> None]
Idle == [kind |-> "idle", who |-> None, pw |-> None, left |-> <<>>]
NoHash == <<None, 0, "absent">>
Open == [set |-> FALSE, salt |-> 0, hash |-> NoHash, iter |-> "absent"]
Salts == 1..3

\* PBKDF2 of a password: equal only for the same password, salt and count.
Hash(pw, salt, iters) == <<pw, salt, iters>>

\* load_salt_hash: a missing admin_iter stands for the count of old firmware.
Loaded == nvs.set /\ nvs.salt # 0 /\ nvs.hash # NoHash
Iters == IF nvs.iter = "absent" THEN "legacy" ELSE nvs.iter
Verifies(pw) == Loaded /\ nvs.hash = Hash(pw, nvs.salt, Iters)

TypeOk ==
  /\ nvs \in [set : BOOLEAN, salt : {0} \cup Salts, iter : {"absent", "new"},
              hash : {NoHash} \cup (Pws \X Salts \X {"legacy", "new"})]
  /\ slot \in [1..Slots -> [who : Clients \cup {None, "lost"}, pw : Pws \cup {None}]]
  /\ ToSet(order) = {s \in 1..Slots : slot[s] # Free} /\ IsInjective(order)
  /\ stale \in 0..Len(order)
  /\ failed \in 0..(LockoutMax - 1) /\ locked \in BOOLEAN
  /\ owner \in Pws \cup {None}

\* A clock as delivered, or one whose password was set by old firmware.
Init ==
  /\ \/ nvs = Open /\ owner = None
     \/ \E p \in Pws : /\ nvs = [set |-> TRUE, salt |-> 1, hash |-> Hash(p, 1, "legacy"),
                                 iter |-> "absent"]
                       /\ owner = p
  /\ slot = [s \in 1..Slots |-> Free] /\ order = <<>> /\ stale = 0
  /\ failed = 0 /\ locked = FALSE /\ job = Idle
  /\ unsure = FALSE

-----------------------------------------------------------------------------
(* Sessions *)

Used == ToSet(order)
Expired == ToSet(SubSeq(order, 1, stale))
Mine(c) == {s \in Used : slot[s].who = c}

\* memset of slots: they are free, and leave the order.
Cleared(S, o) == SelectSeq(o, LAMBDA s : s \notin S)
Clear(S) == [s \in 1..Slots |-> IF s \in S THEN Free ELSE slot[s]]
NoSessions == slot' = [s \in 1..Slots |-> Free] /\ order' = <<>> /\ stale' = 0

\* auth_check_request walks the slots, frees the expired ones it meets and
\* stops at the one it looks for.
Valid(c) == Mine(c) \ Expired
Swept(c) == {s \in Expired : \A m \in Valid(c) : s < m}
Check(c) ==
  /\ slot' = Clear(Swept(c))
  /\ order' = Cleared(Swept(c) \cup Valid(c), order) \o SetToSeq(Valid(c))
  /\ stale' = Cardinality(Expired \ Swept(c))

\* REQUIRE_AUTH: without a password every request passes.
Admitted(c) == nvs.set => Valid(c) # {}
Required(c) == IF nvs.set THEN Check(c) ELSE UNCHANGED <<slot, order, stale>>

\* pick_slot, and the token that a browser keeps in place of its last one.
PickSlot == IF Used = 1..Slots THEN Head(order) ELSE CHOOSE s \in 1..Slots \ Used :
                                                      \A t \in 1..Slots \ Used : s <= t
NewSession(c, pw) ==
  LET s == PickSlot
      kept == [t \in 1..Slots |-> IF slot[t].who = c THEN [slot[t] EXCEPT !.who = "lost"] ELSE slot[t]]
  IN /\ slot' = [kept EXCEPT ![s] = [who |-> c, pw |-> pw]]
     /\ order' = Append(Cleared({s}, order), s)
     /\ stale' = Cardinality(Expired \ {s})
     /\ failed' = 0

-----------------------------------------------------------------------------
(* Writing the password *)

WriteKeys == <<"salt", "hash", "iter", "set">>
EraseKeys == <<"dropSet", "dropSalt", "dropHash", "dropIter">>

Written(key) ==
  CASE key = "salt" -> [nvs EXCEPT !.salt = CHOOSE s \in Salts : s # nvs.salt /\
                                       s # nvs.hash[2]]
    [] key = "hash" -> [nvs EXCEPT !.hash = Hash(job.pw, nvs.salt, "new")]
    [] key = "iter" -> [nvs EXCEPT !.iter = "new"]
    [] key = "set" -> [nvs EXCEPT !.set = TRUE]
    [] key = "dropSet" -> [nvs EXCEPT !.set = FALSE]
    [] key = "dropSalt" -> [nvs EXCEPT !.salt = 0]
    [] key = "dropHash" -> [nvs EXCEPT !.hash = NoHash]
    [] key = "dropIter" -> [nvs EXCEPT !.iter = "absent"]

Begins(kind, c, pw) ==
  job' = [kind |-> kind, who |-> c, pw |-> pw,
          left |-> IF kind \in {"disable", "reset"} THEN EraseKeys ELSE WriteKeys]

WriteKey ==
  /\ job.left # <<>>
  /\ nvs' = Written(Head(job.left))
  /\ job' = [job EXCEPT !.left = Tail(@)]
  /\ UNCHANGED <<slot, order, stale, failed, locked, owner, unsure>>

\* `EndsSessions` where a change leaves the other browsers logged in.
SlipEndsSessions == {"disable", "reset"}

\* auth_clear_all_sessions, from api_auth_change_password and auth_factory_reset.
EndsSessions == {"change", "disable", "reset"}

\* What a handler does once its keys are written.
WriteDone ==
  /\ job.kind # "idle" /\ job.left = <<>>
  /\ job' = Idle /\ unsure' = FALSE
  /\ IF job.kind = "rehash" THEN NewSession(job.who, job.pw)
     ELSE /\ IF job.kind \in EndsSessions THEN NoSessions ELSE UNCHANGED <<slot, order, stale>>
          /\ failed' = IF job.kind \in {"disable", "reset"} THEN 0 ELSE failed
  /\ locked' = (locked /\ job.kind \notin {"disable", "reset"})   \* auth_factory_reset
  /\ owner' = job.pw
  /\ UNCHANGED nvs

\* The write of a key fails: auth_set_password writes no further.  The commit
\* comes after the last key, and its failure leaves that key written.
WriteFails ==
  /\ job.kind \in {"set", "change", "rehash"} /\ job.left # <<>>
  /\ nvs' \in IF job.left = <<"set">> THEN {nvs, Written("set")} ELSE {nvs}
  /\ job' = Idle
  /\ unsure' = (unsure \/ nvs'.set)
  /\ IF job.kind = "rehash"      \* "login still succeeds"
     THEN NewSession(job.who, job.pw) ELSE UNCHANGED <<slot, order, stale, failed>>
  /\ UNCHANGED <<locked, owner>>

-----------------------------------------------------------------------------
(* Requests *)

Quiet == job.kind = "idle"

\* /api/auth/set_password; one of the wrong length is turned down.
SetPassword(pw) ==
  /\ Quiet /\ ~nvs.set
  /\ Begins("set", None, pw)
  /\ UNCHANGED <<nvs, slot, order, stale, failed, locked, owner, unsure>>

\* /api/auth/login
Login(c, pw) ==
  /\ Quiet /\ ~locked /\ Verifies(pw)
  /\ IF Iters # "new"
     THEN Begins("rehash", c, pw) /\ UNCHANGED <<slot, order, stale, failed>>
     ELSE NewSession(c, pw) /\ UNCHANGED job
  /\ UNCHANGED <<nvs, locked, owner, unsure>>

BadLogin ==
  /\ Quiet /\ ~locked
  /\ failed' = (failed + 1) % LockoutMax
  /\ locked' = (failed + 1 = LockoutMax)
  /\ UNCHANGED <<nvs, slot, order, stale, job, owner, unsure>>

\* Any handler behind REQUIRE_AUTH, that of /api/auth/check among them.
Request(c) ==
  /\ Quiet /\ nvs.set /\ Required(c)
  /\ UNCHANGED <<nvs, failed, locked, job, owner, unsure>>

\* /api/auth/logout: a token that has expired is found as well.
Logout(c) ==
  /\ Quiet
  /\ slot' = Clear(Mine(c)) /\ order' = Cleared(Mine(c), order)
  /\ stale' = Cardinality(Expired \ Mine(c))
  /\ UNCHANGED <<nvs, failed, locked, job, owner, unsure>>

\* /api/auth/change_password and /api/auth/disable want the password again,
\* /api/factory_reset_full does not.
Change(c, new) ==
  /\ Quiet /\ Admitted(c) /\ Required(c)
  /\ \E old \in Pws : Verifies(old)
  /\ Begins("change", c, new)
  /\ UNCHANGED <<nvs, failed, locked, owner, unsure>>

Disable(c) ==
  /\ Quiet /\ Admitted(c) /\ Required(c)
  /\ \E pw \in Pws : Verifies(pw)
  /\ Begins("disable", c, None)
  /\ UNCHANGED <<nvs, failed, locked, owner, unsure>>

FactoryReset(c) ==
  /\ Quiet /\ Admitted(c) /\ Required(c)
  /\ Begins("reset", c, None)
  /\ UNCHANGED <<nvs, failed, locked, owner, unsure>>

\* A restart at any time, and auth_init.
Boot ==
  /\ NoSessions /\ failed' = 0 /\ locked' = FALSE /\ job' = Idle
  /\ unsure' = (unsure \/ (~Quiet /\ nvs.set /\ job.left # WriteKeys))
  /\ owner' = IF nvs.set THEN owner ELSE None
  /\ UNCHANGED nvs

\* Time: the oldest session outlives its week, the lockout its minute.
Expires == stale < Len(order) /\ stale' = stale + 1
           /\ UNCHANGED <<nvs, slot, order, failed, locked, job, owner, unsure>>
LockoutOver == locked /\ locked' = FALSE
               /\ UNCHANGED <<nvs, slot, order, stale, failed, job, owner, unsure>>

Next ==
  \/ WriteKey \/ WriteDone \/ WriteFails
  \/ \E pw \in Pws : SetPassword(pw)
  \/ \E c \in Clients, pw \in Pws : Login(c, pw) \/ Change(c, pw)
  \/ BadLogin
  \/ \E c \in Clients : Request(c) \/ Logout(c) \/ Disable(c) \/ FactoryReset(c)
  \/ Boot \/ Expires \/ LockoutOver

Spec == Init /\ [][Next]_vars

-----------------------------------------------------------------------------
\* Until a change of it breaks off between two keys, the password the owner was
\* last told is set is the one that logs in, and no other does; without one the
\* clock is open.  This has to hold through the silent move of an old hash to
\* today's iteration count (auth_login) and through every power cut.
OwnerGetsIn ==
  Quiet /\ ~unsure => {pw \in Pws : Verifies(pw)} = {owner} \ {None} /\ (nvs.set <=> owner # None)

\* No session outlives the password it was opened with: a change, a disabling
\* and a reset end all of them, whichever browser asked.
SessionsOfOwner ==
  Quiet /\ ~unsure => \A s \in 1..Slots : slot[s] # Free => slot[s].pw = owner

\* What auth_login's comments promise of the move to another iteration count,
\* that it needs no manual intervention: a password that is set can be given.
PasswordSurvives == Quiet /\ nvs.set => \E pw \in Pws : Verifies(pw)
=============================================================================
