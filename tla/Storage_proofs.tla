---------------------------- MODULE Storage_proofs ----------------------------
(***************************************************************************)
(* Proofs about what the clock keeps: the admin password and its sessions  *)
(* (Auth), the panels with their previews (LcdTuning), the time            *)
(* (TimeKeeping), the theme folders (ThemeStore) and the settings one by   *)
(* one (ConfigFields).  Each has an inductive invariant of its own, of     *)
(* which only its part speaks; a step of another part leaves it alone.     *)
(*                                                                         *)
(* OnlyTheOwner speaks of the moments between two requests.  AdminInv adds *)
(* what a handler has written of the four keys so far, so that a change    *)
(* that runs to its end leaves the new password whichever half-written mix *)
(* it started from, and what keeps a session from passing to another       *)
(* password: no session without a password, and a hash of the old firmware *)
(* was never changed since its owner set it.  LcdInv says which values the *)
(* pending timers and saves will leave, TimeInv how far the chip may have  *)
(* strayed since its last answer, PacksInv where the old folder, the new   *)
(* one and the copy put aside are at each step of an installation.         *)
(* FieldsInv says what each kind of setting can be; a reader keeps it      *)
(* whatever a request says, and reads back whatever satisfies it.          *)
(***************************************************************************)
EXTENDS Storage, SequenceTheorems, TLAPS

-----------------------------------------------------------------------------
(* The password and its sessions *)

Holder == Clients \cup {"none", "lost"}
SetsKeys == {"set", "change", "rehash"}
DropsKeys == {"disable", "reset"}
Unwritten == {<<"salt", "hash", "iter", "set">>, <<"hash", "iter", "set">>, <<"iter", "set">>, <<"set">>, <<>>}
Unerased == {<<"dropSet", "dropSalt", "dropHash", "dropIter">>, <<"dropSalt", "dropHash", "dropIter">>,
             <<"dropHash", "dropIter">>, <<"dropIter">>, <<>>}

SlotOk == slot \in [1..Slots -> [who : Holder, pw : Pws \cup {"none"}]]
Hashes == {<<"none", 0, "absent">>} \cup (Pws \X (1..3) \X {"legacy", "new"})
NvsOk == nvs \in [set : BOOLEAN, salt : 0..3, hash : Hashes, iter : {"absent", "new"}]
KeysOk ==
  /\ keys.kind \in {"idle"} \cup SetsKeys \cup DropsKeys
  /\ keys.kind = "idle" => keys.left = <<>>
  /\ keys.kind \in SetsKeys => keys.pw \in Pws /\ keys.who \in Holder /\ keys.left \in Unwritten
  /\ keys.kind = "rehash" => keys.who \in Clients
  /\ keys.kind \in DropsKeys => keys.pw = "none" /\ keys.left \in Unerased
  /\ keys = [kind |-> keys.kind, who |-> keys.who, pw |-> keys.pw, left |-> keys.left]
  /\ owner \in Pws \cup {"none"}

\* What the keys say when nothing has broken off.
Whole ==
  /\ nvs.set <=> owner # "none"
  /\ nvs.set => /\ nvs.salt # 0
                /\ nvs.hash = <<owner, nvs.salt, IF nvs.iter = "absent" THEN "legacy" ELSE nvs.iter>>

NoneIn == \A s \in 1..Slots : slot[s] = [who |-> "none", pw |-> "none"]
AllOf(pw) == \A s \in 1..Slots : slot[s] # [who |-> "none", pw |-> "none"] => slot[s].pw = pw

\* The keys a handler has written, and what it started from.
WriteInv ==
  keys.kind \in SetsKeys =>
    /\ keys.left # <<"salt", "hash", "iter", "set">> => nvs.salt # 0
    /\ keys.left \in {<<"iter", "set">>, <<"set">>, <<>>} => nvs.hash = <<keys.pw, nvs.salt, "new">>
    /\ keys.left \in {<<"set">>, <<>>} => nvs.iter = "new"
    /\ keys.left = <<>> => nvs.set
    /\ keys.kind = "set" => (keys.left # <<>> => ~nvs.set) /\ NoneIn /\ (~unsure => owner = "none")
    /\ keys.kind # "set" => nvs.set
    /\ keys.kind = "rehash" => owner = keys.pw /\ AllOf(owner)
    /\ keys.left = <<"salt", "hash", "iter", "set">> /\ ~unsure => Whole

EraseInv ==
  keys.kind \in DropsKeys /\ keys.left # <<"dropSet", "dropSalt", "dropHash", "dropIter">> => ~nvs.set

RestedInv == keys.kind = "idle" /\ ~unsure => Whole /\ AllOf(owner)
OpenInv == ~nvs.set /\ keys.kind \notin DropsKeys => NoneIn
LegacyInv == nvs.set /\ nvs.iter = "absent" /\ nvs.hash[3] = "legacy" => nvs.hash[1] = owner /\ AllOf(owner)

AdminInv ==
  /\ SlotOk /\ NvsOk /\ KeysOk
  /\ WriteInv /\ EraseInv /\ RestedInv /\ OpenInv /\ LegacyInv

-----------------------------------------------------------------------------
(* One key of the password at a time. *)

LEMMA LeftOver ==
  ASSUME AdminInv, Admin!WriteKey
  PROVE  /\ keys.kind \in SetsKeys \cup DropsKeys
         /\ keys'.kind = keys.kind /\ keys'.who = keys.who /\ keys'.pw = keys.pw
         /\ keys'.left = Tail(keys.left)
         /\ keys' = [kind |-> keys.kind, who |-> keys.who, pw |-> keys.pw, left |-> keys'.left]
         /\ nvs' = Admin!Written(Head(keys.left))
         /\ UNCHANGED <<slot, owner, unsure>>
BY DEF AdminInv, KeysOk, Admin!WriteKey

LEMMA SlotsKept ==
  ASSUME AdminInv, UNCHANGED <<slot, owner>>
  PROVE  SlotOk' /\ (NoneIn' <=> NoneIn) /\ (AllOf(owner)' <=> AllOf(owner))
BY DEF AdminInv, SlotOk, NoneIn, AllOf

\* A key of a new password.
LEMMA SetsKey ==
  ASSUME AdminInv, Admin!WriteKey, keys.kind \in SetsKeys
  PROVE  AdminInv'
<1> USE DEF SetsKeys, DropsKeys
<1>1. keys.left \in Unwritten /\ keys.left # <<>> /\ keys.pw \in Pws /\ keys.who \in Holder
  BY DEF AdminInv, KeysOk, Admin!WriteKey
<1>2. SlotOk' /\ (NoneIn' <=> NoneIn) /\ (AllOf(owner)' <=> AllOf(owner))
  BY LeftOver, SlotsKept
<1>3. CASE keys.left = <<"salt", "hash", "iter", "set">>
  <2>1. keys'.left = <<"hash", "iter", "set">> /\ nvs' = Admin!Written("salt")
    BY LeftOver, <1>3
  <2>2. PICK new \in 1..3 : nvs' = [nvs EXCEPT !.salt = new]
    <3>1. nvs' = [nvs EXCEPT !.salt = CHOOSE s \in Admin!Salts : s # nvs.salt /\ s # nvs.hash[2]]
      BY <2>1 DEF Admin!Written
    <3>2. \E s \in 1..3 : s # nvs.salt /\ s # nvs.hash[2]
      OBVIOUS
    <3>3. (CHOOSE s \in Admin!Salts : s # nvs.salt /\ s # nvs.hash[2]) \in 1..3
      BY <3>2 DEF Admin!Salts
    <3> QED BY <3>1, <3>3, Zenon
  <2>3. nvs'.salt \in 1..3 /\ nvs'.set = nvs.set /\ nvs'.iter = nvs.iter /\ nvs'.hash = nvs.hash /\ NvsOk'
    BY <2>2 DEF AdminInv, NvsOk
  <2> QED BY <1>1, <1>2, <1>3, <2>1, <2>3, LeftOver
        DEF AdminInv, KeysOk, WriteInv, EraseInv, RestedInv, OpenInv, LegacyInv, Unwritten
<1>4. CASE keys.left = <<"hash", "iter", "set">>
  <2>1. keys'.left = <<"iter", "set">> /\ nvs' = Admin!Written("hash")
    BY LeftOver, <1>4
  <2>2. nvs'.salt = nvs.salt /\ nvs'.set = nvs.set /\ nvs'.iter = nvs.iter
        /\ nvs'.hash = <<keys.pw, nvs.salt, "new">> /\ NvsOk'
    <3>1. nvs' = [nvs EXCEPT !.hash = <<keys.pw, nvs.salt, "new">>]
      BY <2>1 DEF Admin!Written, Admin!Hash
    <3>2. <<keys.pw, nvs.salt, "new">> \in Hashes
      BY <1>1, <1>4 DEF AdminInv, NvsOk, WriteInv, Hashes
    <3> QED BY <3>1, <3>2 DEF AdminInv, NvsOk
  <2> QED BY <1>1, <1>2, <1>4, <2>1, <2>2, LeftOver
        DEF AdminInv, KeysOk, WriteInv, EraseInv, RestedInv, OpenInv, LegacyInv, Unwritten
<1>5. CASE keys.left = <<"iter", "set">>
  <2>1. keys'.left = <<"set">> /\ nvs' = Admin!Written("iter")
    BY LeftOver, <1>5
  <2>2. nvs'.salt = nvs.salt /\ nvs'.set = nvs.set /\ nvs'.iter = "new" /\ nvs'.hash = nvs.hash /\ NvsOk'
    BY <2>1 DEF Admin!Written, AdminInv, NvsOk
  <2> QED BY <1>1, <1>2, <1>5, <2>1, <2>2, LeftOver
        DEF AdminInv, KeysOk, WriteInv, EraseInv, RestedInv, OpenInv, LegacyInv, Unwritten
<1>6. CASE keys.left = <<"set">>
  <2>1. keys'.left = <<>> /\ nvs' = Admin!Written("set")
    BY LeftOver, <1>6
  <2>2. nvs'.salt = nvs.salt /\ nvs'.set /\ nvs'.iter = nvs.iter /\ nvs'.hash = nvs.hash /\ NvsOk'
    <3>1. nvs' = [nvs EXCEPT !.set = TRUE]
      BY <2>1 DEF Admin!Written
    <3> QED BY <3>1, Zenon DEF AdminInv, NvsOk
  <2> QED BY <1>1, <1>2, <1>6, <2>1, <2>2, LeftOver
        DEF AdminInv, KeysOk, WriteInv, EraseInv, RestedInv, OpenInv, LegacyInv, Unwritten
<1> QED BY <1>1, <1>3, <1>4, <1>5, <1>6 DEF Unwritten

\* A key that a disabling or a reset erases: admin_set goes first.
LEMMA DropsKey ==
  ASSUME AdminInv, Admin!WriteKey, keys.kind \in DropsKeys
  PROVE  AdminInv'
<1> USE DEF SetsKeys, DropsKeys
<1>1. keys.left \in Unerased /\ keys.left # <<>> /\ keys.pw = "none"
  BY DEF AdminInv, KeysOk, Admin!WriteKey
<1>2. SlotOk' /\ (NoneIn' <=> NoneIn) /\ (AllOf(owner)' <=> AllOf(owner))
  BY LeftOver, SlotsKept
<1>3. NvsOk' /\ ~nvs'.set
  <2>1. CASE keys.left = <<"dropSet", "dropSalt", "dropHash", "dropIter">>
    <3>1. nvs' = [nvs EXCEPT !.set = FALSE]
      BY LeftOver, <2>1 DEF Admin!Written
    <3> QED BY <3>1, Zenon DEF AdminInv, NvsOk
  <2>2. CASE keys.left = <<"dropSalt", "dropHash", "dropIter">>
    <3>1. nvs' = [nvs EXCEPT !.salt = 0]
      BY LeftOver, <2>2 DEF Admin!Written
    <3> QED BY <3>1, <2>2 DEF AdminInv, NvsOk, EraseInv
  <2>3. CASE keys.left = <<"dropHash", "dropIter">>
    <3>1. nvs' = [nvs EXCEPT !.hash = <<"none", 0, "absent">>]
      BY LeftOver, <2>3 DEF Admin!Written, Admin!NoHash, Admin!None
    <3> QED BY <3>1, <2>3 DEF AdminInv, NvsOk, EraseInv, Hashes
  <2>4. CASE keys.left = <<"dropIter">>
    <3>1. nvs' = [nvs EXCEPT !.iter = "absent"]
      BY LeftOver, <2>4 DEF Admin!Written
    <3> QED BY <3>1, <2>4 DEF AdminInv, NvsOk, EraseInv
  <2> QED BY <1>1, <2>1, <2>2, <2>3, <2>4 DEF Unerased
<1>4. keys'.left \in Unerased
  <2>1. keys'.left = Tail(keys.left)
    BY LeftOver
  <2>2. CASE keys.left = <<"dropSet", "dropSalt", "dropHash", "dropIter">>
    BY <2>1, <2>2 DEF Unerased
  <2>3. CASE keys.left = <<"dropSalt", "dropHash", "dropIter">>
    BY <2>1, <2>3 DEF Unerased
  <2>4. CASE keys.left = <<"dropHash", "dropIter">>
    BY <2>1, <2>4 DEF Unerased
  <2>5. CASE keys.left = <<"dropIter">>
    BY <2>1, <2>5 DEF Unerased
  <2> QED BY <1>1, <2>2, <2>3, <2>4, <2>5 DEF Unerased
<1> QED BY <1>1, <1>2, <1>3, <1>4, LeftOver
      DEF AdminInv, KeysOk, WriteInv, EraseInv, RestedInv, OpenInv, LegacyInv

-----------------------------------------------------------------------------
(* The session table. *)

LEMMA SessionsEnd ==
  ASSUME Admin!NoSessions
  PROVE  SlotOk' /\ NoneIn' /\ AllOf(owner)'
BY DEF Admin!NoSessions, Admin!Free, Admin!None, SlotOk, NoneIn, AllOf, Holder

\* Freeing slots leaves the others what they were.
LEMMA SomeFreed ==
  ASSUME AdminInv, NEW S, slot' = Admin!Clear(S), owner' = owner
  PROVE  SlotOk' /\ (NoneIn => NoneIn') /\ (AllOf(owner) => AllOf(owner)')
BY DEF AdminInv, SlotOk, NoneIn, AllOf, Holder, Admin!Clear, Admin!Free, Admin!None

\* A session is opened in one slot, and a slot whose token its browser has replaced
\* keeps its password.
LEMMA SessionOpened ==
  ASSUME AdminInv, NEW c \in Clients, NEW pw \in Pws, Admin!NewSession(c, pw)
  PROVE  SlotOk' /\ (AllOf(pw) => \A s \in 1..Slots : slot'[s] # [who |-> "none", pw |-> "none"] => slot'[s].pw = pw)
<1> DEFINE renamed == [t \in 1..Slots |-> IF slot[t].who = c THEN [slot[t] EXCEPT !.who = "lost"] ELSE slot[t]]
<1>1. renamed \in [1..Slots -> [who : Holder, pw : Pws \cup {"none"}]]
  BY DEF AdminInv, SlotOk, Holder
<1>2. AllOf(pw) => \A t \in 1..Slots : renamed[t] # [who |-> "none", pw |-> "none"] => renamed[t].pw = pw
  BY StorageAssumption DEF AdminInv, SlotOk, Holder, AllOf
<1>3. PICK s : slot' = [renamed EXCEPT ![s] = [who |-> c, pw |-> pw]]
  BY DEF Admin!NewSession
<1>4. [who |-> c, pw |-> pw] \in [who : Holder, pw : Pws \cup {"none"}]
  BY DEF Holder
<1> HIDE DEF renamed
<1> QED BY <1>1, <1>2, <1>3, <1>4 DEF SlotOk

-----------------------------------------------------------------------------
(* The end of a handler that writes keys. *)

LEMMA WriteDoneStep ==
  ASSUME AdminInv, Admin!WriteDone
  PROVE  AdminInv'
<1> USE DEF SetsKeys, DropsKeys
<1>1. /\ keys.kind \in SetsKeys \cup DropsKeys /\ keys.left = <<>>
      /\ keys' = [kind |-> "idle", who |-> "none", pw |-> "none", left |-> <<>>]
      /\ owner' = keys.pw /\ nvs' = nvs
  BY DEF Admin!WriteDone, Admin!Idle, Admin!None, AdminInv, KeysOk
<1>2. keys'.kind = "idle" /\ keys'.left = <<>> /\ owner' \in Pws \cup {"none"}
  BY <1>1 DEF AdminInv, KeysOk
<1>3. KeysOk' /\ NvsOk' /\ WriteInv' /\ EraseInv'
  BY <1>1, <1>2 DEF AdminInv, KeysOk, NvsOk, WriteInv, EraseInv
<1>4. CASE keys.kind \in DropsKeys
  <2>1. SlotOk' /\ NoneIn' /\ AllOf(owner)'
    BY <1>4, SessionsEnd DEF Admin!WriteDone, Admin!EndsSessions
  <2>2. ~nvs.set /\ owner' = "none"
    BY <1>1, <1>4 DEF AdminInv, EraseInv, KeysOk
  <2> QED BY <1>1, <1>2, <1>3, <2>1, <2>2 DEF AdminInv, RestedInv, OpenInv, LegacyInv, Whole
<1>5. CASE keys.kind \in SetsKeys
  <2>1. nvs.set /\ nvs.salt # 0 /\ nvs.iter = "new" /\ nvs.hash = <<keys.pw, nvs.salt, "new">> /\ keys.pw \in Pws
    BY <1>1, <1>5 DEF AdminInv, WriteInv, KeysOk
  <2>2. Whole'
    BY <1>1, <2>1, StorageAssumption DEF Whole
  <2>3. LegacyInv' /\ OpenInv'
    BY <1>1, <2>1 DEF LegacyInv, OpenInv
  <2>4. SlotOk' /\ AllOf(owner)'
    <3>1. CASE keys.kind = "rehash"
      <4>1. Admin!NewSession(keys.who, keys.pw) /\ keys.who \in Clients /\ owner = keys.pw /\ AllOf(owner)
        BY <1>1, <1>5, <3>1 DEF Admin!WriteDone, AdminInv, KeysOk, WriteInv
      <4>2. AllOf(keys.pw)
        BY <4>1 DEF AllOf
      <4> QED BY <1>1, <2>1, <4>1, <4>2, SessionOpened DEF AllOf
    <3>2. CASE keys.kind = "change"
      BY <3>2, SessionsEnd DEF Admin!WriteDone, Admin!EndsSessions
    <3>3. CASE keys.kind = "set"
      <4>1. NoneIn /\ slot' = slot
        BY <1>1, <3>3 DEF Admin!WriteDone, Admin!EndsSessions, AdminInv, WriteInv
      <4> QED BY <4>1 DEF NoneIn, AllOf, AdminInv, SlotOk
    <3> QED BY <1>5, <3>1, <3>2, <3>3
  <2> QED BY <1>3, <2>2, <2>3, <2>4 DEF AdminInv, RestedInv
<1> QED BY <1>1, <1>4, <1>5

LEMMA WriteFailsStep ==
  ASSUME AdminInv, Admin!WriteFails
  PROVE  AdminInv'
<1> USE DEF SetsKeys, DropsKeys
<1>1. /\ keys.kind \in SetsKeys /\ keys.left # <<>>
      /\ keys' = [kind |-> "idle", who |-> "none", pw |-> "none", left |-> <<>>]
      /\ owner' = owner /\ unsure' = (unsure \/ nvs'.set)
      /\ nvs' = nvs \/ (keys.left = <<"set">> /\ nvs' = [nvs EXCEPT !.set = TRUE])
  BY DEF Admin!WriteFails, Admin!Idle, Admin!None, Admin!Written
<1>2. keys'.kind = "idle" /\ keys'.left = <<>>
  BY <1>1
<1>3. NvsOk' /\ nvs'.iter = nvs.iter /\ nvs'.hash = nvs.hash /\ (nvs.set => nvs'.set)
      /\ (nvs' # nvs => nvs'.set /\ keys.left = <<"set">>)
  BY <1>1, Zenon DEF AdminInv, NvsOk
<1>4. KeysOk' /\ WriteInv' /\ EraseInv'
  BY <1>1, <1>2 DEF AdminInv, KeysOk, WriteInv, EraseInv
<1>5. nvs'.set => unsure'
  BY <1>1, Zenon
<1>6. SlotOk' /\ (AllOf(owner) => AllOf(owner)') /\ (NoneIn /\ keys.kind # "rehash" => NoneIn')
  <2>1. CASE keys.kind = "rehash"
    <3>1. Admin!NewSession(keys.who, keys.pw) /\ keys.who \in Clients /\ keys.pw \in Pws
          /\ owner = keys.pw /\ AllOf(owner)
      BY <1>1, <2>1 DEF Admin!WriteFails, AdminInv, KeysOk, WriteInv
    <3>2. AllOf(keys.pw)
      BY <3>1 DEF AllOf
    <3> QED BY <1>1, <2>1, <3>1, <3>2, SessionOpened DEF AllOf
  <2>2. CASE keys.kind # "rehash"
    BY <1>1, <2>2, SlotsKept DEF Admin!WriteFails
  <2> QED BY <2>1, <2>2
<1>7. OpenInv'
  BY <1>1, <1>2, <1>3, <1>6 DEF AdminInv, OpenInv, WriteInv
<1>8. LegacyInv'
  <2>1. nvs' # nvs => nvs'.iter = "new"
    BY <1>1, <1>3 DEF AdminInv, WriteInv
  <2> QED BY <1>1, <1>3, <1>6, <2>1 DEF AdminInv, LegacyInv
<1>9. RestedInv'
  <2> SUFFICES ASSUME ~unsure' PROVE Whole' /\ AllOf(owner)'
    BY DEF RestedInv
  <2>1. ~nvs'.set /\ ~unsure /\ nvs' = nvs
    BY <1>1, <1>3, <1>5, Zenon
  <2>2. keys.kind = "set" /\ owner = "none" /\ NoneIn
    BY <1>1, <2>1 DEF AdminInv, WriteInv
  <2>3. NoneIn'
    BY <1>6, <2>2
  <2> QED BY <1>1, <2>1, <2>2, <2>3 DEF Whole, NoneIn, AllOf
<1> QED BY <1>3, <1>4, <1>6, <1>7, <1>8, <1>9 DEF AdminInv

-----------------------------------------------------------------------------
(* The requests. *)

\* What a handler that has still all its keys to write finds.
LEMMA HandlerBegins ==
  ASSUME AdminInv, NEW kind \in SetsKeys \cup DropsKeys, NEW c, NEW pw,
         Admin!Quiet, Admin!Begins(kind, c, pw), UNCHANGED <<nvs, owner, unsure>>,
         SlotOk', NoneIn => NoneIn', AllOf(owner) => AllOf(owner)',
         kind \in SetsKeys => pw \in Pws /\ c \in Holder /\ (kind = "set" <=> ~nvs.set),
         kind = "rehash" => c \in Clients /\ owner = pw /\ AllOf(owner),
         kind \in DropsKeys => pw = "none"
  PROVE  AdminInv'
<1> USE DEF SetsKeys, DropsKeys
<1>1. keys' = [kind |-> kind, who |-> c, pw |-> pw,
               left |-> IF kind \in DropsKeys THEN <<"dropSet", "dropSalt", "dropHash", "dropIter">>
                        ELSE <<"salt", "hash", "iter", "set">>]
  BY DEF Admin!Begins, Admin!EraseKeys, Admin!WriteKeys
<1>2. keys.kind = "idle" /\ nvs' = nvs /\ owner' = owner /\ unsure' = unsure
  BY DEF Admin!Quiet
<1>3. keys'.kind = kind /\ keys'.who = c /\ keys'.pw = pw
  BY <1>1
<1>4. kind \in SetsKeys => keys'.left = <<"salt", "hash", "iter", "set">>
  BY <1>1
<1>5. kind \in DropsKeys => keys'.left = <<"dropSet", "dropSalt", "dropHash", "dropIter">>
  BY <1>1
<1>6. NvsOk' /\ KeysOk'
  BY <1>1, <1>2, <1>3, <1>4, <1>5 DEF AdminInv, NvsOk, KeysOk, Unwritten, Unerased
<1>7. EraseInv' /\ RestedInv' /\ OpenInv' /\ LegacyInv'
  BY <1>2, <1>3, <1>5 DEF AdminInv, EraseInv, RestedInv, OpenInv, LegacyInv
<1>8. Whole' <=> Whole
  BY <1>2 DEF Whole
<1>9. WriteInv'
  <2> SUFFICES ASSUME kind \in SetsKeys PROVE WriteInv'
    BY <1>3 DEF WriteInv
  <2>1. kind = "set" => NoneIn' /\ (~unsure => owner = "none")
    BY <1>2 DEF AdminInv, OpenInv, RestedInv, Whole
  <2>2. ~unsure => Whole
    BY <1>2 DEF AdminInv, RestedInv
  <2> QED BY <1>2, <1>3, <1>4, <1>8, <2>1, <2>2 DEF WriteInv
<1> QED BY <1>6, <1>7, <1>9 DEF AdminInv

\* A password is given that the keys verify.
LEMMA GivenPassword ==
  ASSUME AdminInv, Admin!Quiet, NEW pw \in Pws, Admin!Verifies(pw)
  PROVE  /\ nvs.set
         /\ nvs.iter = "absent" => owner = pw /\ AllOf(owner)
         /\ ~unsure => owner = pw
<1>1. nvs.set /\ nvs.hash = <<pw, nvs.salt, IF nvs.iter = "absent" THEN "legacy" ELSE nvs.iter>>
  BY DEF Admin!Verifies, Admin!Loaded, Admin!Hash, Admin!Iters
<1>2. nvs.iter = "absent" => nvs.hash[1] = pw /\ nvs.hash[3] = "legacy"
  BY <1>1
<1> QED BY <1>1, <1>2 DEF AdminInv, LegacyInv, RestedInv, Whole, Admin!Quiet

LEMMA SetPasswordStep ==
  ASSUME AdminInv, NEW pw \in Pws, Admin!SetPassword(pw)
  PROVE  AdminInv'
<1>1. Admin!Quiet /\ ~nvs.set /\ Admin!Begins("set", "none", pw) /\ UNCHANGED <<nvs, slot, owner, unsure>>
  BY DEF Admin!SetPassword, Admin!None
<1>2. SlotOk' /\ (NoneIn => NoneIn') /\ (AllOf(owner) => AllOf(owner)')
  BY <1>1, SlotsKept
<1>3. "set" \in SetsKeys \cup DropsKeys /\ "set" \notin DropsKeys /\ "none" \in Holder
  BY DEF SetsKeys, DropsKeys, Holder
<1> QED BY <1>1, <1>2, <1>3, HandlerBegins

LEMMA LoginStep ==
  ASSUME AdminInv, NEW c \in Clients, NEW pw \in Pws, Admin!Login(c, pw)
  PROVE  AdminInv'
<1>1. Admin!Quiet /\ Admin!Verifies(pw) /\ UNCHANGED <<nvs, owner, unsure>>
  BY DEF Admin!Login
<1>2. nvs.set /\ (nvs.iter = "absent" => owner = pw /\ AllOf(owner)) /\ (~unsure => owner = pw)
  BY <1>1, GivenPassword
<1>3. CASE nvs.iter = "absent"
  <2>1. Admin!Begins("rehash", c, pw) /\ slot' = slot
    BY <1>3 DEF Admin!Login, Admin!Iters
  <2>2. SlotOk' /\ (NoneIn => NoneIn') /\ (AllOf(owner) => AllOf(owner)')
    BY <1>1, <2>1, SlotsKept
  <2>3. "rehash" \in SetsKeys \cup DropsKeys /\ "rehash" \notin DropsKeys /\ c \in Holder
    BY DEF SetsKeys, DropsKeys, Holder
  <2> QED BY <1>1, <1>2, <1>3, <2>1, <2>2, <2>3, HandlerBegins
<1>4. CASE nvs.iter = "new"
  <2>1. Admin!NewSession(c, pw) /\ keys' = keys
    BY <1>4 DEF Admin!Login, Admin!Iters
  <2>2. SlotOk' /\ (~unsure => AllOf(owner)')
    BY <1>1, <1>2, <2>1, SessionOpened DEF AdminInv, RestedInv, AllOf, Admin!Quiet
  <2> QED BY <1>1, <1>2, <1>4, <2>1, <2>2
        DEF AdminInv, NvsOk, KeysOk, WriteInv, EraseInv, RestedInv, OpenInv, LegacyInv, Whole, Admin!Quiet,
            SetsKeys, DropsKeys
<1> QED BY <1>3, <1>4 DEF AdminInv, NvsOk

\* The requests that only walk the table.
LEMMA TableStep ==
  ASSUME AdminInv, Admin!Quiet, UNCHANGED <<nvs, keys, owner, unsure>>,
         SlotOk', NoneIn => NoneIn', AllOf(owner) => AllOf(owner)'
  PROVE  AdminInv'
BY DEF AdminInv, NvsOk, KeysOk, WriteInv, EraseInv, RestedInv, OpenInv, LegacyInv, Whole, Admin!Quiet,
       SetsKeys, DropsKeys

LEMMA Walked ==
  ASSUME AdminInv, NEW c, Admin!Required(c), owner' = owner
  PROVE  SlotOk' /\ (NoneIn => NoneIn') /\ (AllOf(owner) => AllOf(owner)')
<1>1. CASE nvs.set
  BY <1>1, SomeFreed DEF Admin!Required, Admin!Check
<1>2. CASE ~nvs.set
  BY <1>2, SlotsKept DEF Admin!Required
<1> QED BY <1>1, <1>2

LEMMA RequestStep ==
  ASSUME AdminInv, NEW c \in Clients, Admin!Request(c) \/ Admin!Logout(c)
  PROVE  AdminInv'
<1>1. Admin!Quiet /\ UNCHANGED <<nvs, keys, owner, unsure>>
  BY DEF Admin!Request, Admin!Logout
<1>2. CASE Admin!Request(c)
  BY <1>1, <1>2, Walked, TableStep DEF Admin!Request
<1>3. CASE Admin!Logout(c)
  BY <1>1, <1>3, SomeFreed, TableStep DEF Admin!Logout
<1> QED BY <1>2, <1>3

LEMMA ChangeStep ==
  ASSUME AdminInv, NEW c \in Clients, NEW new \in Pws, Admin!Change(c, new)
  PROVE  AdminInv'
<1>1. /\ Admin!Quiet /\ Admin!Required(c) /\ Admin!Begins("change", c, new)
      /\ UNCHANGED <<nvs, owner, unsure>>
  BY DEF Admin!Change
<1>2. nvs.set
  BY <1>1, GivenPassword DEF Admin!Change
<1>3. SlotOk' /\ (NoneIn => NoneIn') /\ (AllOf(owner) => AllOf(owner)')
  BY <1>1, Walked
<1>4. "change" \in SetsKeys \cup DropsKeys /\ "change" \notin DropsKeys /\ c \in Holder
  BY DEF SetsKeys, DropsKeys, Holder
<1> QED BY <1>1, <1>2, <1>3, <1>4, HandlerBegins

LEMMA DisableStep ==
  ASSUME AdminInv, NEW c \in Clients, Admin!Disable(c) \/ Admin!FactoryReset(c)
  PROVE  AdminInv'
<1>1. Admin!Quiet /\ Admin!Required(c) /\ UNCHANGED <<nvs, owner, unsure>>
  BY DEF Admin!Disable, Admin!FactoryReset
<1>2. PICK kind \in DropsKeys : Admin!Begins(kind, c, "none")
  BY DEF Admin!Disable, Admin!FactoryReset, Admin!None, DropsKeys
<1>3. SlotOk' /\ (NoneIn => NoneIn') /\ (AllOf(owner) => AllOf(owner)')
  BY <1>1, Walked
<1>4. kind \in SetsKeys \cup DropsKeys /\ kind \notin SetsKeys /\ kind # "rehash"
  BY DEF SetsKeys, DropsKeys
<1> QED BY <1>1, <1>2, <1>3, <1>4, HandlerBegins

LEMMA BootStep ==
  ASSUME AdminInv, Admin!Boot
  PROVE  AdminInv'
<1> USE DEF SetsKeys, DropsKeys
<1>1. /\ keys' = [kind |-> "idle", who |-> "none", pw |-> "none", left |-> <<>>]
      /\ nvs' = nvs /\ owner' = IF nvs.set THEN owner ELSE "none"
      /\ unsure' = (unsure \/ (keys.kind # "idle" /\ nvs.set /\ keys.left # <<"salt", "hash", "iter", "set">>))
  BY DEF Admin!Boot, Admin!Idle, Admin!None, Admin!Quiet, Admin!WriteKeys
<1>2. keys'.kind = "idle" /\ keys'.left = <<>>
  BY <1>1
<1>3. SlotOk' /\ NoneIn' /\ AllOf(owner)'
  BY SessionsEnd DEF Admin!Boot
<1>4. NvsOk' /\ KeysOk' /\ WriteInv' /\ EraseInv'
  BY <1>1, <1>2 DEF AdminInv, NvsOk, KeysOk, WriteInv, EraseInv
<1>5. LegacyInv'
  BY <1>1, <1>3 DEF AdminInv, LegacyInv
<1>6. RestedInv'
  <2> SUFFICES ASSUME ~unsure' PROVE Whole'
    BY <1>3 DEF RestedInv
  <2>1. CASE ~nvs.set
    BY <1>1, <2>1 DEF Whole
  <2>2. CASE nvs.set /\ keys.kind = "idle"
    <3>1. ~unsure
      BY <1>1, Zenon
    <3> QED BY <1>1, <2>2, <3>1 DEF AdminInv, RestedInv, Whole
  <2>3. CASE nvs.set /\ keys.kind # "idle"
    <3>1. ~unsure /\ keys.left = <<"salt", "hash", "iter", "set">>
      BY <1>1, <2>3, Zenon
    <3>2. keys.kind \in SetsKeys
      BY <2>3, <3>1 DEF AdminInv, KeysOk, Unerased
    <3> QED BY <1>1, <2>3, <3>1, <3>2 DEF AdminInv, WriteInv, Whole
  <2> QED BY <2>1, <2>2, <2>3
<1> QED BY <1>3, <1>4, <1>5, <1>6 DEF AdminInv, OpenInv

-----------------------------------------------------------------------------
LEMMA AdminInit == StorageInit => AdminInv
<1> SUFFICES ASSUME Admin!Init PROVE AdminInv
  BY DEF StorageInit
<1> USE DEF Admin!Init, Admin!Open, Admin!NoHash, Admin!None, Admin!Hash, Admin!Idle, Admin!Free
<1>1. SlotOk /\ NoneIn /\ (\A p : AllOf(p))
  BY DEF SlotOk, NoneIn, AllOf, Holder
<1>2. keys.kind = "idle" /\ keys.left = <<>> /\ KeysOk
  BY DEF KeysOk, SetsKeys, DropsKeys
<1>3. NvsOk /\ Whole
  <2>1. CASE nvs = Admin!Open /\ owner = "none"
    BY <2>1 DEF NvsOk, Hashes, Whole
  <2>2. CASE \E p \in Pws : /\ nvs = [set |-> TRUE, salt |-> 1, hash |-> <<p, 1, "legacy">>, iter |-> "absent"]
                            /\ owner = p
    <3>1. PICK p \in Pws : /\ nvs = [set |-> TRUE, salt |-> 1, hash |-> <<p, 1, "legacy">>, iter |-> "absent"]
                           /\ owner = p
      BY <2>2
    <3>2. <<p, 1, "legacy">> \in Hashes
      BY DEF Hashes
    <3> QED BY <3>1, <3>2, StorageAssumption DEF NvsOk, Whole
  <2> QED BY <2>1, <2>2
<1>4. LegacyInv
  BY <1>1, <1>3 DEF LegacyInv, Whole
<1> QED BY <1>1, <1>2, <1>3, <1>4
      DEF AdminInv, WriteInv, EraseInv, RestedInv, OpenInv, SetsKeys, DropsKeys

LEMMA AdminUnchanged ==
  ASSUME AdminInv, UNCHANGED adminVars
  PROVE  AdminInv'
BY DEF adminVars, AdminInv, SlotOk, NvsOk, KeysOk, WriteInv, EraseInv, RestedInv, OpenInv, LegacyInv, Whole,
       NoneIn, AllOf

LEMMA AdminStep == AdminInv /\ [StorageNext]_storageVars => AdminInv'
<1> SUFFICES ASSUME AdminInv, [StorageNext]_storageVars PROVE AdminInv'
  OBVIOUS
<1>1. CASE UNCHANGED adminVars
  BY <1>1, AdminUnchanged
<1>2. CASE Admin!Next
  <2>1. CASE Admin!WriteKey
    BY <2>1, SetsKey, DropsKey, LeftOver
  <2>2. CASE Admin!WriteDone \/ Admin!WriteFails
    BY <2>2, WriteDoneStep, WriteFailsStep
  <2>3. CASE \E pw \in Pws : Admin!SetPassword(pw)
    BY <2>3, SetPasswordStep
  <2>4. CASE \E c \in Clients, pw \in Pws : Admin!Login(c, pw) \/ Admin!Change(c, pw)
    BY <2>4, LoginStep, ChangeStep
  <2>5. CASE \E c \in Clients : Admin!Request(c) \/ Admin!Logout(c) \/ Admin!Disable(c) \/ Admin!FactoryReset(c)
    BY <2>5, RequestStep, DisableStep
  <2>6. CASE Admin!Boot
    BY <2>6, BootStep
  <2>7. CASE Admin!BadLogin \/ Admin!Expires \/ Admin!LockoutOver
    <3>1. UNCHANGED <<nvs, slot, keys, owner, unsure>>
      BY <2>7 DEF Admin!BadLogin, Admin!Expires, Admin!LockoutOver
    <3> QED BY <3>1, SlotsKept
          DEF AdminInv, NvsOk, KeysOk, WriteInv, EraseInv, RestedInv, OpenInv, LegacyInv, Whole
  <2> QED BY <1>2, <2>1, <2>2, <2>3, <2>4, <2>5, <2>6, <2>7 DEF Admin!Next
<1> QED BY <1>1, <1>2 DEF StorageNext, storageVars, adminVars

\* Without a broken change, the owner's password is the one that verifies.
LEMMA AdminHolds == AdminInv => OnlyTheOwner
<1> SUFFICES ASSUME AdminInv, Admin!Quiet, ~unsure PROVE Admin!OwnerGetsIn /\ Admin!SessionsOfOwner
  BY DEF OnlyTheOwner, Admin!OwnerGetsIn, Admin!SessionsOfOwner
<1>1. Whole /\ AllOf(owner)
  BY DEF AdminInv, RestedInv, Admin!Quiet
<1>2. ASSUME NEW pw \in Pws PROVE Admin!Verifies(pw) <=> pw = owner
  <2>1. nvs.set => nvs.hash # <<"none", 0, "absent">>
    BY <1>1 DEF AdminInv, NvsOk, Whole
  <2> QED BY <1>1, <2>1, StorageAssumption
        DEF Whole, Admin!Verifies, Admin!Loaded, Admin!Hash, Admin!Iters, Admin!NoHash, Admin!None
<1>3. {pw \in Pws : Admin!Verifies(pw)} = {owner} \ {"none"}
  BY <1>2, StorageAssumption DEF AdminInv, KeysOk
<1> QED BY <1>1, <1>3
      DEF Whole, AllOf, Admin!OwnerGetsIn, Admin!SessionsOfOwner, Admin!None, Admin!Free

\* auth.c:234, web_server.c:1242: through power cuts and failed writes between any two of
\* the four NVS keys, for any passwords, browsers and size of the session table, the
\* password that logs in is the one the owner was last told is set, unless a change of
\* it has broken off since, and no session outlives the password that opened it.
THEOREM PasswordOfTheOwner == StorageSpec => []OnlyTheOwner
<1>1. StorageInit => AdminInv
  BY AdminInit
<1>2. AdminInv /\ [StorageNext]_storageVars => AdminInv'
  BY AdminStep
<1>3. AdminInv => OnlyTheOwner
  BY AdminHolds
<1> QED BY <1>1, <1>2, <1>3, PTL DEF StorageSpec

-----------------------------------------------------------------------------
(* The panels and their previews *)

Fails == [n : Nat, since : BOOLEAN]
Due == IF preview.on THEN preview.at ELSE tuned
LcdOk ==
  /\ tuned \in Lcd!Tunings /\ held \in Lcd!Tunings
  /\ applied \in [ok : BOOLEAN, at : Lcd!Tunings] /\ preview \in [on : BOOLEAN, at : Lcd!Tunings]
  /\ timer \in [st : {"off", "armed"}, queued : BOOLEAN]
  /\ save \in [at : {"no", "keep", "apply"}, old : Lcd!Tunings]
  /\ fails \in Fails

\* Until a pause fails, the tubes have what is due, or what a save is about to change,
\* and what lcd_apply_diff believes they have.
TunedInv ==
  ~fails.since =>
    /\ save.at # "apply" => /\ held = Due /\ panel = Lcd!Latch(Due)
                            /\ applied.ok => applied.at = Due
    /\ save.at = "apply" => held = save.old /\ panel = Lcd!Latch(save.old)

PreviewInv ==
  preview.on => /\ save.at = "no" /\ applied.ok /\ applied.at = preview.at
                /\ timer.st = "armed" \/ timer.queued

LcdInv == LcdOk /\ TunedInv /\ PreviewInv

\* A change of gamma is no change, or large enough to be one.
LEMMA TuningValues ==
  ASSUME NEW t \in Lcd!Tunings, NEW u \in Lcd!Tunings
  PROVE  /\ t \in [Lcd!Groups -> {0, 1, GammaStep + 1}]
         /\ DOMAIN t = {"invert", "profile", "vcom", "gamma", "offset", "soft"}
         /\ Lcd!Differ(t.gamma, u.gamma) <=> t.gamma # u.gamma
<1>1. Lcd!Groups = {"invert", "profile", "vcom", "gamma", "offset", "soft"}
  BY DEF Lcd!Groups, Lcd!Latched
<1>2. t \in [Lcd!Groups -> {0, 1, GammaStep + 1}] /\ u \in [Lcd!Groups -> {0, 1, GammaStep + 1}]
  BY DEF Lcd!Tunings
<1>3. t["gamma"] \in {0, GammaStep + 1} /\ u["gamma"] \in {0, GammaStep + 1}
  BY <1>1 DEF Lcd!Tunings, Lcd!Values
<1> QED BY <1>1, <1>2, <1>3, StorageAssumption DEF Lcd!Differ

\* What is to be done is done: the values held become the new ones.
LEMMA HeldIsNew ==
  ASSUME NEW old \in Lcd!Tunings, NEW new \in Lcd!Tunings
  PROVE  Lcd!HeldAfter(old, Lcd!Work(old, new), new) = new
<1>1. old \in [Lcd!Groups -> {0, 1, GammaStep + 1}] /\ new \in [Lcd!Groups -> {0, 1, GammaStep + 1}]
  BY TuningValues
<1>2. ASSUME NEW g \in Lcd!Groups
      PROVE  (IF g \notin Lcd!Work(old, new) \/ (g = "gamma" /\ ~Lcd!Differ(old.gamma, new.gamma))
              THEN old[g] ELSE new[g]) = new[g]
  BY TuningValues DEF Lcd!Work, Lcd!Groups, Lcd!Latched
<1> QED BY <1>1, <1>2 DEF Lcd!HeldAfter

\* And so does what the panel has latched, when the display task paused each time.
LEMMA PanelIsNew ==
  ASSUME NEW old \in Lcd!Tunings, NEW new \in Lcd!Tunings
  PROVE  LET work == Lcd!Work(old, new)
             pausing == (work \cap {"invert"}) \cup Lcd!Resets(old, work, new)
         IN Lcd!PanelAfter(Lcd!Latch(old), old, work, new, pausing) = Lcd!Latch(new)
<1> DEFINE work == Lcd!Work(old, new)
<1> DEFINE resets == Lcd!Resets(old, work, new)
<1> DEFINE pausing == (work \cap {"invert"}) \cup resets
<1>1. \A g \in {"invert", "profile", "vcom"} : g \in work <=> old[g] # new[g]
  BY DEF Lcd!Work
<1>2. resets = {g \in {"profile", "vcom"} : old[g] # new[g]}
  BY <1>1 DEF Lcd!Resets
<1>3. resets \cap pausing = resets /\ ("invert" \in work \cap pausing <=> old["invert"] # new["invert"])
  BY <1>1, <1>2
<1>4. Lcd!HeldAfter(old, work, new) = new
  BY HeldIsNew
<1>5. DOMAIN new = {"invert", "profile", "vcom", "gamma", "offset", "soft"}
  BY TuningValues
<1> DEFINE atProfile == [new EXCEPT !.vcom = old.vcom]
<1>6. atProfile.profile = new.profile /\ atProfile.vcom = old.vcom
  <2>1. new = [g \in DOMAIN new |-> new[g]]
    BY TuningValues
  <2> QED BY <1>5, <2>1
<1> HIDE DEF work, resets, pausing, atProfile
<1>7. Lcd!PanelAfter(Lcd!Latch(old), old, work, new, pausing) =
        [invert  |-> IF resets = {} THEN (IF "invert" \in work \cap pausing THEN new.invert ELSE old.invert) ELSE new.invert,
         profile |-> IF resets = {} THEN old.profile
                     ELSE (IF "vcom" \in resets THEN new ELSE atProfile).profile,
         vcom    |-> IF resets = {} THEN old.vcom ELSE (IF "vcom" \in resets THEN new ELSE atProfile).vcom,
         win     |-> IF "profile" \in resets THEN new.profile ELSE old.profile]
  BY <1>3, <1>4 DEF Lcd!PanelAfter, Lcd!Latch, resets, atProfile
<1> QED BY <1>2, <1>3, <1>6, <1>7 DEF Lcd!Latch, work, resets, pausing

\* The appliers, run for the difference between two tunings of which the tubes have the first.
LEMMA Applied ==
  ASSUME NEW old \in Lcd!Tunings, NEW new \in Lcd!Tunings, Lcd!Apply(old, new), fails \in Fails
  PROVE  /\ fails' \in Fails
         /\ held \in Lcd!Tunings => held' \in Lcd!Tunings
         /\ fails.since => fails'.since
         /\ ~fails'.since /\ held = old /\ panel = Lcd!Latch(old) => held' = new /\ panel' = Lcd!Latch(new)
<1> DEFINE work == Lcd!Work(old, new)
<1> DEFINE pausing == (work \cap {"invert"}) \cup Lcd!Resets(held, work, new)
<1>1. PICK paused \in SUBSET pausing :
        /\ fails' = IF paused = pausing THEN fails ELSE [n |-> fails.n + 1, since |-> TRUE]
        /\ held' = Lcd!HeldAfter(held, work, new)
        /\ panel' = Lcd!PanelAfter(panel, held, work, new, paused)
  BY DEF Lcd!Apply
<1> HIDE DEF work, pausing
<1>2. fails' \in Fails
  BY <1>1 DEF Fails
<1>3. fails.since => fails'.since
  BY <1>1
<1>4. held \in Lcd!Tunings => held' \in Lcd!Tunings
  <2> SUFFICES ASSUME held \in Lcd!Tunings PROVE held' \in Lcd!Tunings
    OBVIOUS
  <2>1. held \in [Lcd!Groups -> {0, 1, GammaStep + 1}] /\ new \in [Lcd!Groups -> {0, 1, GammaStep + 1}]
    BY TuningValues
  <2>2. held' \in [Lcd!Groups -> {0, 1, GammaStep + 1}]
        /\ \A g \in Lcd!Groups : held'[g] = held[g] \/ held'[g] = new[g]
    BY <1>1, <2>1 DEF Lcd!HeldAfter
  <2> QED BY <2>2 DEF Lcd!Tunings
<1>5. ASSUME ~fails'.since, held = old, panel = Lcd!Latch(old)
      PROVE  held' = new /\ panel' = Lcd!Latch(new)
  <2>1. paused = pausing
    <3>1. paused # pausing => fails' = [n |-> fails.n + 1, since |-> TRUE]
      BY <1>1
    <3> QED BY <1>5, <3>1
  <2>2. held' = new
    BY <1>1, <1>5, HeldIsNew DEF work
  <2>3. panel' = Lcd!Latch(new)
    BY <1>1, <1>5, <2>1, PanelIsNew DEF work, pausing
  <2> QED BY <2>2, <2>3
<1> QED BY <1>2, <1>3, <1>4, <1>5

\* lcd_apply_diff starts from what it believes the tubes have.
LEMMA DiffApplied ==
  ASSUME LcdInv, NEW want \in Lcd!Tunings, Lcd!ApplyDiff(want), save.at # "apply"
  PROVE  /\ held' \in Lcd!Tunings /\ fails' \in Fails
         /\ applied' = [ok |-> TRUE, at |-> want]
         /\ ~fails'.since => held' = want /\ panel' = Lcd!Latch(want)
<1>1. Lcd!Apply(Lcd!Known, want) /\ applied' = [ok |-> TRUE, at |-> want]
  BY DEF Lcd!ApplyDiff
<1>2. Lcd!Known \in Lcd!Tunings
  BY DEF LcdInv, LcdOk, Lcd!Known
<1>3. fails \in Fails /\ held \in Lcd!Tunings
  BY DEF LcdInv, LcdOk
<1>4. ~fails.since => held = Lcd!Known /\ panel = Lcd!Latch(Lcd!Known)
  BY DEF LcdInv, LcdOk, TunedInv, PreviewInv, Due, Lcd!Known
<1>5. /\ fails' \in Fails /\ held' \in Lcd!Tunings
      /\ fails.since => fails'.since
      /\ ~fails'.since /\ held = Lcd!Known /\ panel = Lcd!Latch(Lcd!Known) => held' = want /\ panel' = Lcd!Latch(want)
  BY <1>1, <1>2, <1>3, Applied
<1> QED BY <1>1, <1>3, <1>4, <1>5

LEMMA PlainTuning == Lcd!Plain \in Lcd!Tunings
BY DEF Lcd!Plain, Lcd!Tunings, Lcd!Values

\* Whatever it finds, a revert leaves no preview on and the tubes with what is saved.
LEMMA RevertedTo ==
  ASSUME LcdInv, Lcd!Reverted, tuned' = tuned, save.at # "apply"
  PROVE  /\ held' \in Lcd!Tunings /\ fails' \in Fails
         /\ applied' \in [ok : BOOLEAN, at : Lcd!Tunings] /\ preview' \in [on : BOOLEAN, at : Lcd!Tunings]
         /\ ~preview'.on
         /\ ~fails'.since => /\ held' = tuned /\ panel' = Lcd!Latch(tuned)
                             /\ applied'.ok => applied'.at = tuned
<1>1. tuned \in Lcd!Tunings
  BY DEF LcdInv, LcdOk
<1>2. CASE ~preview.on
  <2>1. UNCHANGED <<held, panel, fails, applied, preview>>
    BY <1>2 DEF Lcd!Reverted
  <2> QED BY <1>2, <2>1 DEF LcdInv, LcdOk, TunedInv, Due
<1>3. CASE preview.on
  <2>1. Lcd!ApplyDiff(tuned) /\ preview' = [on |-> FALSE, at |-> Lcd!Plain]
    BY <1>3 DEF Lcd!Reverted
  <2>2. /\ held' \in Lcd!Tunings /\ fails' \in Fails /\ applied' = [ok |-> TRUE, at |-> tuned]
        /\ ~fails'.since => held' = tuned /\ panel' = Lcd!Latch(tuned)
    BY <1>1, <2>1, DiffApplied
  <2> QED BY <1>1, <2>1, <2>2, PlainTuning
<1> QED BY <1>2, <1>3

LEMMA SameTunings == groups' = groups => Lcd!Tunings' = Lcd!Tunings
BY DEF Lcd!Tunings, Lcd!Values

LEMMA PostStep ==
  ASSUME LcdInv, groups' = groups, NEW t \in Lcd!Tunings, Lcd!Post(t)
  PROVE  LcdInv'
<1>1. /\ save.at = "no" /\ Lcd!ApplyDiff(t) /\ preview' = [on |-> TRUE, at |-> t]
      /\ timer' = [timer EXCEPT !.st = "armed"] /\ tuned' = tuned /\ save' = save
  BY DEF Lcd!Post, Lcd!Serving
<1>2. /\ held' \in Lcd!Tunings /\ fails' \in Fails /\ applied' = [ok |-> TRUE, at |-> t]
      /\ ~fails'.since => held' = t /\ panel' = Lcd!Latch(t)
  BY <1>1, DiffApplied
<1>3. preview'.on /\ preview'.at = t /\ applied'.ok /\ applied'.at = t
  BY <1>1, <1>2
<1>4. timer' \in [st : {"off", "armed"}, queued : BOOLEAN] /\ timer'.st = "armed"
  BY <1>1 DEF LcdInv, LcdOk
<1>5. LcdOk'
  BY <1>1, <1>2, <1>4, SameTunings DEF LcdInv, LcdOk
<1> QED BY <1>1, <1>2, <1>3, <1>4, <1>5 DEF LcdInv, TunedInv, PreviewInv, Due

\* Both reverts, and the one a save begins with.
LEMMA RevertStep ==
  ASSUME LcdInv, groups' = groups, Lcd!Revert \/ Lcd!QueuedRevert \/ Lcd!BeginSave
  PROVE  LcdInv'
<1>1. save.at = "no" /\ Lcd!Reverted /\ tuned' = tuned /\ save' \in {save, [save EXCEPT !.at = "keep"]}
  BY DEF Lcd!Revert, Lcd!QueuedRevert, Lcd!BeginSave, Lcd!Serving
<1>2. timer' \in [st : {"off", "armed"}, queued : BOOLEAN]
  <2>1. timer \in [st : {"off", "armed"}, queued : BOOLEAN]
    BY DEF LcdInv, LcdOk
  <2>2. timer' = timer \/ timer' = [timer EXCEPT !.st = "off"] \/ timer' = [st |-> "off", queued |-> FALSE]
    BY DEF Lcd!Revert, Lcd!QueuedRevert, Lcd!BeginSave
  <2>3. [timer EXCEPT !.st = "off"] \in [st : {"off", "armed"}, queued : BOOLEAN]
    BY <2>1
  <2>4. [st |-> "off", queued |-> FALSE] \in [st : {"off", "armed"}, queued : BOOLEAN]
    OBVIOUS
  <2> QED BY <2>1, <2>2, <2>3, <2>4
<1>3. save' \in [at : {"no", "keep", "apply"}, old : Lcd!Tunings] /\ save'.at # "apply"
  BY <1>1 DEF LcdInv, LcdOk
<1>4. LcdOk'
  BY <1>1, <1>2, <1>3, RevertedTo, SameTunings DEF LcdInv, LcdOk
<1> QED BY <1>1, <1>3, <1>4, RevertedTo DEF LcdInv, TunedInv, PreviewInv, Due

LEMMA KeepSettingsStep ==
  ASSUME LcdInv, groups' = groups, NEW t \in Lcd!Tunings, Lcd!KeepSettings(t)
  PROVE  LcdInv'
<1>1. /\ save.at = "keep" /\ save' = [at |-> "apply", old |-> tuned] /\ tuned' = t
      /\ UNCHANGED <<held, panel, applied, preview, timer, fails>>
  BY DEF Lcd!KeepSettings
<1>2. LcdOk'
  BY <1>1, SameTunings DEF LcdInv, LcdOk
<1>3. ~preview.on /\ save'.at = "apply" /\ save'.old = tuned
  BY <1>1 DEF LcdInv, PreviewInv
<1> QED BY <1>1, <1>2, <1>3 DEF LcdInv, TunedInv, PreviewInv, Due

LEMMA ApplySettingsStep ==
  ASSUME LcdInv, groups' = groups, Lcd!ApplySettings
  PROVE  LcdInv'
<1>1. /\ save.at = "apply" /\ Lcd!Apply(save.old, tuned) /\ applied' = [ok |-> FALSE, at |-> Lcd!Plain]
      /\ save' = [at |-> "no", old |-> Lcd!Plain] /\ UNCHANGED <<tuned, preview, timer>>
  BY DEF Lcd!ApplySettings, Lcd!Forgotten
<1>2. save.old \in Lcd!Tunings /\ tuned \in Lcd!Tunings /\ held \in Lcd!Tunings /\ fails \in Fails
  BY DEF LcdInv, LcdOk
<1>3. /\ fails' \in Fails /\ held' \in Lcd!Tunings
      /\ fails.since => fails'.since
      /\ ~fails'.since /\ held = save.old /\ panel = Lcd!Latch(save.old) => held' = tuned /\ panel' = Lcd!Latch(tuned)
  BY <1>1, <1>2, Applied
<1>4. ~preview.on
  BY <1>1 DEF LcdInv, PreviewInv
<1>5. ~fails'.since => held' = tuned /\ panel' = Lcd!Latch(tuned)
  BY <1>1, <1>2, <1>3 DEF LcdInv, TunedInv
<1>6. LcdOk'
  BY <1>1, <1>3, PlainTuning, SameTunings DEF LcdInv, LcdOk
<1> QED BY <1>1, <1>4, <1>5, <1>6 DEF LcdInv, TunedInv, PreviewInv, Due

LEMMA LcdInit == StorageInit => LcdInv
<1> SUFFICES ASSUME Lcd!Init PROVE LcdInv
  BY DEF StorageInit
<1>1. LcdOk
  BY PlainTuning DEF Lcd!Init, LcdOk, Fails
<1> QED BY <1>1 DEF Lcd!Init, LcdInv, TunedInv, PreviewInv, Due

LEMMA LcdBoot ==
  ASSUME LcdInv, groups' = groups, Lcd!Boot
  PROVE  LcdInv'
<1>1. LcdOk'
  BY PlainTuning, SameTunings DEF Lcd!Boot, Lcd!Forgotten, LcdInv, LcdOk, Fails
<1> QED BY <1>1 DEF Lcd!Boot, Lcd!Forgotten, LcdInv, TunedInv, PreviewInv, Due

LEMMA LcdStep == LcdInv /\ [StorageNext]_storageVars => LcdInv'
<1> SUFFICES ASSUME LcdInv, [StorageNext]_storageVars PROVE LcdInv'
  OBVIOUS
<1>1. CASE UNCHANGED lcdVars
  BY <1>1, SameTunings DEF lcdVars, LcdInv, LcdOk, TunedInv, PreviewInv, Due
<1>2. CASE Lcd!Next
  <2> groups' = groups
    BY <1>2 DEF Lcd!Next
  <2>1. CASE \E t \in Lcd!Tunings : Lcd!Post(t) \/ Lcd!KeepSettings(t)
    BY <2>1, PostStep, KeepSettingsStep
  <2>2. CASE Lcd!Revert \/ Lcd!QueuedRevert \/ Lcd!BeginSave
    BY <2>2, RevertStep
  <2>3. CASE Lcd!TimerFires
    BY <2>3, SameTunings DEF Lcd!TimerFires, LcdInv, LcdOk, TunedInv, PreviewInv, Due
  <2>4. CASE Lcd!ApplySettings
    BY <2>4, ApplySettingsStep
  <2>5. CASE Lcd!Redraw \/ Lcd!NewContent
    BY <2>5, SameTunings DEF Lcd!Redraw, Lcd!NewContent, LcdInv, LcdOk, TunedInv, PreviewInv, Due
  <2>6. CASE Lcd!Boot
    BY <2>6, LcdBoot
  <2> QED BY <1>2, <2>1, <2>2, <2>3, <2>4, <2>5, <2>6 DEF Lcd!Next
<1> QED BY <1>1, <1>2 DEF StorageNext, storageVars, lcdVars

\* web_server.c:3627-3631: for any gamma step and any number of failed pauses, whatever
\* is previewed, reverted by hand or by the timer, and saved in whatever order, the tubes
\* have what is previewed or saved until a pause fails, and a preview will end.
THEOREM PreviewsAreHonest == StorageSpec => []PreviewHonest
<1>1. StorageInit => LcdInv
  BY LcdInit
<1>2. LcdInv /\ [StorageNext]_storageVars => LcdInv'
  BY LcdStep
<1>3. LcdInv => PreviewHonest
  BY DEF LcdInv, LcdOk, TunedInv, PreviewInv, PreviewHonest, Lcd!PreviewHonest, Lcd!Serving, Due
<1> QED BY <1>1, <1>2, <1>3, PTL DEF StorageSpec

-----------------------------------------------------------------------------
(* The time *)

NtpPcs == {"start", "delay", "stop", "init", "idle", "tick", "adjust", "day", "daily", "again"}
WebPcs == {"idle", "zone", "both", "servers", "stop", "init"}

TimeOk ==
  /\ put \in [zone : Zones, servers : {"a", "b"}, mode : 0..2]
  /\ clock \in [offset : Int, slew : Int, zone : Int] /\ season \in Int
  /\ chip \in [state : Chips \cup {"ok"}, local : Int] /\ stray \in -Drift..Drift
  /\ flags \in [valid : BOOLEAN, synced : BOOLEAN, mode : 0..2, rate : Int]
  /\ staged \in [on : BOOLEAN, local : Int]
  /\ sntp \in [running : BOOLEAN, names : {"task", "static"}, buffer : {"a", "b"}, mutex : {"free", "ntp", "web"}]
  /\ ntp \in [pc : NtpPcs, servers : {"a", "b"}, err : Int]
  /\ web \in WebPcs

\* Who stops the client holds the mutex until it starts it again.
ClientInv ==
  /\ ~crashed
  /\ ntp.pc \in {"init", "again"} <=> sntp.mutex = "ntp"
  /\ web = "init" <=> sntp.mutex = "web"
  /\ sntp.mutex # "free" => ~sntp.running

\* The buffer has been copied since the servers were saved, where anything points to it
\* or is about to.
ServersInv ==
  /\ sntp.names = "static" \/ ntp.pc \in {"daily", "again"} \/ web \in {"stop", "init"}
  /\ web \notin {"servers", "both"}
  => sntp.buffer = put.servers

\* What the chip was given is still the time in the zone in force.
ZoneInv ==
  /\ web \notin {"zone", "both"} => clock.zone = put.zone
  /\ agreed => web \notin {"zone", "both"} /\ chip.local = clock.zone + season /\ flags.valid
  /\ staged.on => flags.valid
  /\ ntp.pc = "adjust" => flags.mode = 2

\* From an answer on, the clock is off by what the crystal has strayed and one
\* correction: one that was measured before the answer, or an earlier one.
Fresh == staged.on \/ (agreed /\ put.mode = 2)
NearInv ==
  Fresh =>
    /\ Time!Size(clock.offset) <= Slew + Drift
    /\ Time!Size(clock.offset + clock.slew - stray) <= Slew
    /\ clock.slew # 0 /\ ntp.pc \in {"tick", "adjust"} => Time!Size(clock.offset) <= Drift
    /\ ntp.pc = "adjust" => (clock.offset = stray /\ clock.slew = 0) \/ (~staged.on /\ ntp.err = clock.offset)

TimeInv == TimeOk /\ ClientInv /\ ServersInv /\ ZoneInv /\ NearInv

\* The correction of a minute is no larger than Slew, and takes an error that is smaller
\* whole; a value within bounds is left alone.
LEMMA Corrections ==
  ASSUME NEW x \in Int, NEW n \in Nat
  PROVE  /\ Time!Within(x, n) \in Int
         /\ Time!Size(Time!Within(x, n)) <= n
         /\ Time!Size(x) <= n => Time!Within(x, n) = x
         /\ x > n => Time!Within(x, n) = n
         /\ x < -n => Time!Within(x, n) = -n
BY DEF Time!Within, Time!Size

Bounds == Drift <= Slew /\ Slew + Drift <= Far

\* Steps that touch neither the clock nor what Fresh is made of keep NearInv, as long as
\* they do not enter a tick or an adjustment.
LEMMA NearKept ==
  ASSUME TimeInv, UNCHANGED <<clock, stray, staged>>, put'.mode = put.mode, agreed' => agreed,
         ntp'.pc \notin {"tick", "adjust"} \/ ntp' = ntp
  PROVE  NearInv'
BY DEF TimeInv, NearInv, Fresh

\* The first reading of the chip.
LEMMA SeededOk ==
  ASSUME TimeOk
  PROVE  Time!Seeded(put.zone) \in [offset : Int, slew : Int, zone : Int] /\ Time!Seeded(put.zone).zone = put.zone
<1> USE StorageAssumption
<1>1. put.zone \in Int /\ chip.local - put.zone - season \in Int /\ Far \in Int /\ 0 \in Int
  <2>1. put.zone \in Zones /\ chip.local \in Int /\ season \in Int
    BY DEF TimeOk
  <2>2. put.zone \in Int
    BY <2>1
  <2> QED BY <2>1, <2>2
<1>2. Time!Within(chip.local - put.zone - season, Far) \in Int
  BY <1>1, Corrections
<1>3. CASE chip.state = "ok"
  BY <1>1, <1>2, <1>3 DEF Time!Seeded
<1>4. CASE chip.state # "ok"
  <2>1. Time!Seeded(put.zone) = [clock EXCEPT !.offset = Far, !.slew = 0, !.zone = put.zone]
    BY <1>4 DEF Time!Seeded
  <2>2. clock \in [offset : Int, slew : Int, zone : Int]
    BY DEF TimeOk
  <2> QED BY <1>1, <2>1, <2>2
<1> QED BY <1>3, <1>4

LEMMA RebootStep ==
  ASSUME TimeInv, Time!Reboot
  PROVE  TimeInv'
<1> USE StorageAssumption
<1>1. /\ clock' = Time!Seeded(put.zone) /\ flags' = Time!AtBoot /\ stray' = 0
      /\ staged' = [staged EXCEPT !.on = FALSE] /\ sntp' = Time!IdleSntp /\ ntp' = Time!NoJob
      /\ web' = "idle" /\ agreed' = FALSE /\ UNCHANGED <<put, season, chip, crashed>>
  BY DEF Time!Reboot
<1>2. clock' \in [offset : Int, slew : Int, zone : Int] /\ clock'.zone = put.zone
  BY <1>1, SeededOk DEF TimeInv
<1>3. flags' \in [valid : BOOLEAN, synced : BOOLEAN, mode : 0..2, rate : Int]
  BY <1>1 DEF Time!AtBoot
<1>4. staged' \in [on : BOOLEAN, local : Int] /\ ~staged'.on
  BY <1>1 DEF TimeInv, TimeOk
<1>5. /\ sntp' = [running |-> FALSE, names |-> "task", buffer |-> "a", mutex |-> "free"]
      /\ ntp' = [pc |-> "start", servers |-> "a", err |-> 0]
  BY <1>1 DEF Time!IdleSntp, Time!NoJob
<1>6. TimeOk'
  BY <1>1, <1>2, <1>3, <1>4, <1>5 DEF TimeInv, TimeOk, NtpPcs, WebPcs
<1> QED BY <1>1, <1>2, <1>4, <1>5, <1>6 DEF TimeInv, ClientInv, ServersInv, ZoneInv, NearInv, Fresh

LEMMA MinuteStep ==
  ASSUME TimeInv, Bounds, Time!Minute
  PROVE  TimeInv'
<1> USE StorageAssumption
<1>1. PICK d \in -1..1 : /\ Time!Size(stray + d) <= Drift /\ stray' = stray + d
                         /\ clock' = [clock EXCEPT !.offset = Time!Within(clock.offset + d + clock.slew, Far), !.slew = 0]
  BY DEF Time!Minute, Time!Offsets
<1>2. /\ ntp.pc \in {"idle", "delay"}
      /\ ntp' = [ntp EXCEPT !.pc = IF ntp.pc = "idle" THEN "tick" ELSE "stop"]
      /\ UNCHANGED <<put, season, chip, flags, staged, sntp, web, crashed, agreed>>
  BY DEF Time!Minute
<1>3. clock.offset \in Int /\ clock.slew \in Int /\ clock.zone \in Int /\ stray \in Int
  BY DEF TimeInv, TimeOk
<1>4. Time!Within(clock.offset + d + clock.slew, Far) \in Int
  BY <1>3, Corrections
<1>5. /\ clock' \in [offset : Int, slew : Int, zone : Int] /\ clock'.slew = 0 /\ clock'.zone = clock.zone
      /\ clock'.offset = Time!Within(clock.offset + d + clock.slew, Far)
  <2>1. PICK o \in Int : o = Time!Within(clock.offset + d + clock.slew, Far)
    BY <1>4
  <2>2. clock' = [clock EXCEPT !.offset = o, !.slew = 0] /\ 0 \in Int
    BY <1>1, <2>1
  <2> QED BY <2>1, <2>2 DEF TimeInv, TimeOk
<1>6. stray' \in -Drift..Drift
  BY <1>1, <1>3 DEF Time!Size
<1>7. ntp' \in [pc : NtpPcs, servers : {"a", "b"}, err : Int] /\ ntp'.pc \in {"tick", "stop"}
  BY <1>2 DEF TimeInv, TimeOk, NtpPcs
<1>8. TimeOk'
  BY <1>2, <1>5, <1>6, <1>7 DEF TimeInv, TimeOk
<1>9. NearInv'
  <2> SUFFICES ASSUME Fresh PROVE Time!Size(clock'.offset) <= Slew + Drift /\ Time!Size(clock'.offset - stray') <= Slew
    BY <1>2, <1>3, <1>5, <1>6, <1>7 DEF NearInv, Fresh
  <2>1. Time!Size(clock.offset + clock.slew - stray) <= Slew
    BY DEF TimeInv, NearInv
  <2>2. clock.offset + d + clock.slew = (clock.offset + clock.slew - stray) + stray'
    BY <1>1, <1>3
  <2>3. Time!Size(clock.offset + d + clock.slew) <= Slew + Drift
    BY <1>3, <1>6, <2>1, <2>2 DEF Time!Size
  <2>4. clock'.offset = clock.offset + d + clock.slew
    <3>1. clock.offset + d + clock.slew \in Int
      BY <1>3
    <3>2. Time!Size(clock.offset + d + clock.slew) <= Far
      BY <1>3, <2>3 DEF Bounds, Time!Size
    <3> QED BY <1>5, <3>1, <3>2, Corrections
  <2> QED BY <1>1, <1>3, <2>1, <2>3, <2>4 DEF Time!Size
<1> QED BY <1>2, <1>5, <1>7, <1>8, <1>9 DEF TimeInv, ClientInv, ServersInv, ZoneInv

LEMMA SeasonStep ==
  ASSUME TimeInv, Time!SeasonTurns
  PROVE  TimeInv'
BY StorageAssumption
   DEF Time!SeasonTurns, TimeInv, TimeOk, ClientInv, ServersInv, ZoneInv, NearInv, Fresh

LEMMA NtpStartStep ==
  ASSUME TimeInv, Time!NtpStart
  PROVE  TimeInv'
<1> USE StorageAssumption
<1>1. /\ ntp.pc = "start" /\ ntp' = [ntp EXCEPT !.pc = "delay", !.servers = put.servers]
      /\ clock' = IF flags.valid THEN [clock EXCEPT !.zone = put.zone] ELSE Time!Seeded(put.zone)
      /\ flags' = [flags EXCEPT !.valid = flags.valid \/ chip.state = "ok"]
      /\ UNCHANGED <<put, season, chip, stray, staged, sntp, web, crashed, agreed>>
  BY DEF Time!NtpStart
<1>2. ntp' \in [pc : NtpPcs, servers : {"a", "b"}, err : Int] /\ ntp'.pc = "delay"
  <2>1. "delay" \in NtpPcs
    BY DEF NtpPcs
  <2> QED BY <1>1, <2>1 DEF TimeInv, TimeOk
<1>3. /\ clock' \in [offset : Int, slew : Int, zone : Int] /\ clock'.zone = put.zone
      /\ flags.valid => clock'.offset = clock.offset /\ clock'.slew = clock.slew
  <2>1. CASE flags.valid
    BY <1>1, <2>1 DEF TimeInv, TimeOk
  <2>2. CASE ~flags.valid
    BY <1>1, <2>2, SeededOk DEF TimeInv
  <2> QED BY <2>1, <2>2
<1>4. flags' \in [valid : BOOLEAN, synced : BOOLEAN, mode : 0..2, rate : Int]
  BY <1>1 DEF TimeInv, TimeOk
<1>5. flags.valid => flags'.valid
  BY <1>1, Zenon DEF TimeInv, TimeOk
<1>6. TimeOk'
  BY <1>1, <1>2, <1>3, <1>4 DEF TimeInv, TimeOk
<1>7. ZoneInv'
  BY <1>1, <1>2, <1>3, <1>5 DEF TimeInv, ZoneInv
<1>8. NearInv'
  BY <1>1, <1>2, <1>3 DEF TimeInv, NearInv, ZoneInv, Fresh
<1> QED BY <1>1, <1>2, <1>6, <1>7, <1>8 DEF TimeInv, ClientInv, ServersInv

\* The task and the web server stop and start the client.
LEMMA NtpStopStep ==
  ASSUME TimeInv, Time!NtpStop
  PROVE  TimeInv'
<1>1. /\ ntp.pc \in {"stop", "daily"} /\ sntp.mutex = "free"
      /\ sntp' = [sntp EXCEPT !.running = FALSE, !.mutex = "ntp"]
      /\ ntp' = [ntp EXCEPT !.pc = IF ntp.pc = "stop" THEN "init" ELSE "again"]
      /\ UNCHANGED <<put, clock, season, chip, stray, flags, staged, web, crashed, agreed>>
  BY DEF Time!NtpStop, Time!MayStop, Time!Stopped
<1>2. /\ ntp' \in [pc : NtpPcs, servers : {"a", "b"}, err : Int] /\ ntp'.pc \in {"init", "again"}
      /\ ntp'.pc = "again" => ntp.pc = "daily"
  BY <1>1 DEF TimeInv, TimeOk, NtpPcs
<1>3. /\ sntp' \in [running : BOOLEAN, names : {"task", "static"}, buffer : {"a", "b"}, mutex : {"free", "ntp", "web"}]
      /\ sntp'.mutex = "ntp" /\ sntp'.names = sntp.names /\ sntp'.buffer = sntp.buffer
  BY <1>1 DEF TimeInv, TimeOk
<1>4. ~sntp'.running
  BY <1>1, Zenon DEF TimeInv, TimeOk
<1>5. TimeOk'
  BY <1>1, <1>2, <1>3 DEF TimeInv, TimeOk
<1>6. NearInv'
  BY <1>1, <1>2, NearKept
<1> QED BY <1>1, <1>2, <1>3, <1>4, <1>5, <1>6 DEF TimeInv, ClientInv, ServersInv, ZoneInv

LEMMA NtpInitStep ==
  ASSUME TimeInv, Time!NtpInit
  PROVE  TimeInv'
<1>1. /\ ntp.pc \in {"init", "again"} /\ ntp' = [ntp EXCEPT !.pc = "idle"]
      /\ crashed' = (crashed \/ (ntp.pc = "init" /\ sntp.running))
      /\ sntp' = Time!Started(IF ntp.pc = "init" THEN "task" ELSE "static")
      /\ UNCHANGED <<put, clock, season, chip, stray, flags, staged, web, agreed>>
  BY DEF Time!NtpInit
<1>2. ntp' \in [pc : NtpPcs, servers : {"a", "b"}, err : Int] /\ ntp'.pc = "idle"
  BY <1>1 DEF TimeInv, TimeOk, NtpPcs
<1>3. sntp.mutex = "ntp" /\ ~sntp.running /\ ~crashed
  BY <1>1 DEF TimeInv, ClientInv
<1>4. ~crashed'
  BY <1>1, <1>3, Zenon
<1>5. /\ sntp' \in [running : BOOLEAN, names : {"task", "static"}, buffer : {"a", "b"}, mutex : {"free", "ntp", "web"}]
      /\ sntp'.mutex = "free" /\ sntp'.buffer = sntp.buffer
      /\ sntp'.names = "static" => ntp.pc = "again"
  BY <1>1 DEF Time!Started, TimeInv, TimeOk
<1>6. TimeOk'
  BY <1>1, <1>2, <1>5 DEF TimeInv, TimeOk
<1>7. NearInv'
  BY <1>1, <1>2, NearKept
<1> QED BY <1>1, <1>2, <1>3, <1>4, <1>5, <1>6, <1>7 DEF TimeInv, ClientInv, ServersInv, ZoneInv

LEMMA WriteChipStep ==
  ASSUME TimeInv, Time!WriteChip
  PROVE  TimeInv'
<1>1. /\ ntp.pc \in {"idle", "tick"} /\ staged.on /\ staged' = [staged EXCEPT !.on = FALSE]
      /\ chip' = IF Time!Written THEN [state |-> "ok", local |-> staged.local] ELSE chip
      /\ agreed' = (chip.state # "none" /\ web \notin {"zone", "both"} /\ staged.local = Time!LocalShift)
      /\ UNCHANGED <<put, clock, season, stray, flags, sntp, ntp, web, crashed>>
  BY DEF Time!WriteChip
<1>2. staged' \in [on : BOOLEAN, local : Int] /\ ~staged'.on
  BY <1>1 DEF TimeInv, TimeOk
<1>3. chip' \in [state : Chips \cup {"ok"}, local : Int]
      /\ (chip.state # "none" => chip'.local = staged.local)
  BY <1>1 DEF TimeInv, TimeOk, Time!Written
<1>4. agreed' => chip.state # "none" /\ web \notin {"zone", "both"} /\ staged.local = clock.zone + season
  BY <1>1 DEF Time!LocalShift
<1>5. TimeOk'
  BY <1>1, <1>2, <1>3 DEF TimeInv, TimeOk
<1>6. Fresh
  BY <1>1 DEF Fresh
<1> QED BY <1>1, <1>2, <1>3, <1>4, <1>5, <1>6 DEF TimeInv, ClientInv, ServersInv, ZoneInv, NearInv

LEMMA DisciplineStep ==
  ASSUME TimeInv, Time!Discipline
  PROVE  TimeInv'
<1> DEFINE nudge == flags.valid /\ put.mode = 1 /\ flags.rate # 0
<1> DEFINE edge == flags.valid /\ put.mode = 2 /\ chip.state = "ok"
<1>1. /\ ntp.pc = "tick" /\ ~staged.on
      /\ flags' = IF flags.valid THEN [flags EXCEPT !.mode = put.mode] ELSE flags
      /\ clock' = IF nudge THEN [clock EXCEPT !.slew = flags.rate] ELSE clock
      /\ \/ edge /\ ntp' = [ntp EXCEPT !.pc = "adjust", !.err = clock.offset - Time!FromChip(chip.local)]
         \/ ntp' = [ntp EXCEPT !.pc = "day"]
      /\ UNCHANGED <<put, season, chip, stray, staged, sntp, web, crashed, agreed>>
  BY DEF Time!Discipline
<1> HIDE DEF nudge, edge
<1>2. /\ flags' \in [valid : BOOLEAN, synced : BOOLEAN, mode : 0..2, rate : Int]
      /\ flags'.valid = flags.valid /\ (flags.valid => flags'.mode = put.mode)
  BY <1>1 DEF TimeInv, TimeOk
<1>3. /\ clock' \in [offset : Int, slew : Int, zone : Int] /\ clock'.zone = clock.zone
      /\ put.mode # 1 => clock' = clock
  BY <1>1 DEF TimeInv, TimeOk, nudge
<1>4. Time!FromChip(chip.local) = chip.local - (clock.zone + season) /\ Time!FromChip(chip.local) \in Int
  BY DEF Time!FromChip, Time!LocalShift, TimeInv, TimeOk
<1>5. CASE edge /\ ntp' = [ntp EXCEPT !.pc = "adjust", !.err = clock.offset - Time!FromChip(chip.local)]
  <2>1. "adjust" \in NtpPcs /\ clock.offset - Time!FromChip(chip.local) \in Int
    BY <1>4 DEF NtpPcs, TimeInv, TimeOk
  <2>2. /\ ntp' \in [pc : NtpPcs, servers : {"a", "b"}, err : Int] /\ ntp'.pc = "adjust"
        /\ ntp'.err = clock.offset - Time!FromChip(chip.local)
    BY <1>5, <2>1 DEF TimeInv, TimeOk
  <2>3. clock' = clock /\ flags'.mode = 2
    BY <1>2, <1>3, <1>5 DEF edge
  <2>4. TimeOk'
    BY <1>1, <1>2, <1>3, <2>2 DEF TimeInv, TimeOk
  <2>5. agreed => ntp'.err = clock.offset
    BY <1>4, <2>2 DEF TimeInv, ZoneInv, TimeOk
  <2>6. NearInv'
    BY <1>1, <2>2, <2>3, <2>5 DEF TimeInv, NearInv, Fresh
  <2> QED BY <1>1, <1>2, <2>2, <2>3, <2>4, <2>6 DEF TimeInv, ClientInv, ServersInv, ZoneInv
<1>6. CASE ntp' = [ntp EXCEPT !.pc = "day"]
  <2>1. ntp' \in [pc : NtpPcs, servers : {"a", "b"}, err : Int] /\ ntp'.pc = "day"
    BY <1>6 DEF TimeInv, TimeOk, NtpPcs
  <2>2. TimeOk'
    BY <1>1, <1>2, <1>3, <2>1 DEF TimeInv, TimeOk
  <2>3. NearInv'
    BY <1>1, <1>3, <2>1 DEF TimeInv, NearInv, Fresh
  <2> QED BY <1>1, <1>2, <1>3, <2>1, <2>2, <2>3 DEF TimeInv, ClientInv, ServersInv, ZoneInv
<1> QED BY <1>1, <1>5, <1>6

LEMMA AdjustStep ==
  ASSUME TimeInv, Bounds, Time!Adjust
  PROVE  TimeInv'
<1> USE StorageAssumption
<1> DEFINE pull == Time!Within(-ntp.err, Slew)
<1>1. /\ ntp.pc = "adjust" /\ ntp' = [ntp EXCEPT !.pc = "day", !.err = 0] /\ clock' = [clock EXCEPT !.slew = pull]
      /\ UNCHANGED <<put, season, chip, stray, flags, staged, sntp, web, crashed, agreed>>
  BY DEF Time!Adjust, Time!Pull
<1>2. ntp.err \in Int /\ pull \in Int /\ Time!Size(pull) <= Slew
  BY Corrections DEF TimeInv, TimeOk
<1>3. /\ clock' \in [offset : Int, slew : Int, zone : Int] /\ clock'.slew = pull
      /\ clock'.offset = clock.offset /\ clock'.zone = clock.zone
  BY <1>1, <1>2 DEF TimeInv, TimeOk
<1>4. ntp' \in [pc : NtpPcs, servers : {"a", "b"}, err : Int] /\ ntp'.pc = "day"
  <2>1. "day" \in NtpPcs /\ 0 \in Int
    BY DEF NtpPcs
  <2> QED BY <1>1, <2>1 DEF TimeInv, TimeOk
<1>5. TimeOk'
  BY <1>1, <1>3, <1>4 DEF TimeInv, TimeOk
<1>6. Fresh => Time!Size(clock.offset + pull - stray) <= Slew
  <2> SUFFICES ASSUME Fresh PROVE Time!Size(clock.offset + pull - stray) <= Slew
    OBVIOUS
  <2>1. clock.offset \in Int /\ clock.slew \in Int /\ stray \in -Drift..Drift
    BY DEF TimeInv, TimeOk
  <2>2. CASE clock.offset = stray
    BY <1>2, <2>1, <2>2
  <2>3. CASE ntp.err = clock.offset
    <3>1. -clock.offset > Slew => pull = Slew
      BY <1>2, <2>3, Corrections
    <3>2. -clock.offset < -Slew => pull = -Slew
      BY <1>2, <2>3, Corrections
    <3>3. Time!Size(clock.offset) <= Slew => pull = -clock.offset
      <4>1. Time!Size(-clock.offset) <= Slew => Time!Within(-clock.offset, Slew) = -clock.offset
        BY <2>1, Corrections
      <4> QED BY <2>1, <2>3, <4>1 DEF Time!Size
    <3>4. Time!Size(clock.offset + clock.slew - stray) <= Slew
          /\ (clock.slew = 0 \/ Time!Size(clock.offset) <= Drift)
      BY <1>1 DEF TimeInv, NearInv
    <3> HIDE DEF pull
    <3> QED BY <1>2, <2>1, <3>1, <3>2, <3>3, <3>4 DEF Time!Size, Bounds
  <2> QED BY <1>1, <2>2, <2>3 DEF TimeInv, NearInv
<1> HIDE DEF pull
<1>7. NearInv'
  BY <1>1, <1>3, <1>4, <1>6 DEF TimeInv, NearInv, Fresh
<1> QED BY <1>1, <1>3, <1>4, <1>5, <1>7 DEF TimeInv, ClientInv, ServersInv, ZoneInv

LEMMA DailyStep ==
  ASSUME TimeInv, Time!Daily \/ Time!SameDay
  PROVE  TimeInv'
<1>1. /\ ntp.pc = "day" /\ ntp' = [ntp EXCEPT !.pc = ntp'.pc]
      /\ \/ ntp'.pc = "daily" /\ sntp' = [sntp EXCEPT !.buffer = put.servers]
         \/ ntp'.pc = "idle" /\ sntp' = sntp
      /\ UNCHANGED <<put, clock, season, chip, stray, flags, staged, web, crashed, agreed>>
  BY DEF Time!Daily, Time!SameDay, Time!Copied, TimeInv, TimeOk
<1>2. ntp' \in [pc : NtpPcs, servers : {"a", "b"}, err : Int]
  BY <1>1 DEF TimeInv, TimeOk, NtpPcs
<1>3. /\ sntp' \in [running : BOOLEAN, names : {"task", "static"}, buffer : {"a", "b"}, mutex : {"free", "ntp", "web"}]
      /\ sntp'.names = sntp.names /\ sntp'.mutex = sntp.mutex
      /\ sntp'.buffer = put.servers \/ (sntp'.buffer = sntp.buffer /\ ntp'.pc # "daily")
  BY <1>1 DEF TimeInv, TimeOk
<1>4. sntp'.running = sntp.running
  BY <1>1, Zenon DEF TimeInv, TimeOk
<1>5. TimeOk'
  BY <1>1, <1>2, <1>3 DEF TimeInv, TimeOk
<1>6. NearInv'
  BY <1>1, NearKept
<1> QED BY <1>1, <1>2, <1>3, <1>4, <1>5, <1>6 DEF TimeInv, ClientInv, ServersInv, ZoneInv

LEMMA AnswerStep ==
  ASSUME TimeInv, Bounds, Time!Answer
  PROVE  TimeInv'
<1> USE StorageAssumption
<1> DEFINE slews == flags.synced /\ flags.mode = 0
<1>1. /\ clock' = IF slews THEN [clock EXCEPT !.offset = stray, !.slew = -stray]
                  ELSE [clock EXCEPT !.offset = 0, !.slew = 0]
      /\ stray' = 0 /\ staged' = [on |-> TRUE, local |-> clock.zone + season]
      /\ UNCHANGED <<put, season, chip, sntp, ntp, web, crashed, agreed>>
  BY DEF Time!Answer, Time!LocalShift
<1>2. PICK rate \in {flags.rate, Time!Within(-stray, 1)} :
        flags' = [flags EXCEPT !.valid = TRUE, !.synced = TRUE, !.rate = IF flags.synced THEN rate ELSE flags.rate]
  BY DEF Time!Answer
<1>3. stray \in -Drift..Drift /\ -stray \in Int /\ stray \in Int /\ 0 \in Int /\ clock.zone + season \in Int
  BY DEF TimeInv, TimeOk
<1>4. flags' \in [valid : BOOLEAN, synced : BOOLEAN, mode : 0..2, rate : Int] /\ flags'.mode = flags.mode
  <2>1. Time!Within(-stray, 1) \in Int
    BY <1>3, Corrections
  <2>2. (IF flags.synced THEN rate ELSE flags.rate) \in Int
    BY <2>1 DEF TimeInv, TimeOk
  <2>3. PICK r \in Int : flags' = [flags EXCEPT !.valid = TRUE, !.synced = TRUE, !.rate = r]
    BY <1>2, <2>2
  <2> QED BY <2>3 DEF TimeInv, TimeOk
<1>5. flags'.valid
  BY <1>2, Zenon DEF TimeInv, TimeOk
<1> HIDE DEF slews
<1>6. /\ clock' \in [offset : Int, slew : Int, zone : Int] /\ clock'.zone = clock.zone
      /\ \/ slews /\ clock'.offset = stray /\ clock'.slew = -stray
         \/ ~slews /\ clock'.offset = 0 /\ clock'.slew = 0
  <2>1. CASE slews
    BY <1>1, <1>3, <2>1 DEF TimeInv, TimeOk
  <2>2. CASE ~slews
    BY <1>1, <1>3, <2>2 DEF TimeInv, TimeOk
  <2> QED BY <2>1, <2>2
<1>7. staged' \in [on : BOOLEAN, local : Int] /\ staged'.on
  BY <1>1, <1>3
<1>8. 0 \in -Drift..Drift
  OBVIOUS
<1>9. TimeOk'
  BY <1>1, <1>4, <1>6, <1>7, <1>8 DEF TimeInv, TimeOk
<1>10. ntp.pc = "adjust" => ~slews
  BY DEF TimeInv, ZoneInv, slews
<1>11. NearInv'
  BY <1>1, <1>3, <1>6, <1>10 DEF NearInv, Time!Size, Bounds
<1> QED BY <1>1, <1>4, <1>5, <1>6, <1>7, <1>9, <1>11 DEF TimeInv, ClientInv, ServersInv, ZoneInv

LEMMA ServersStep ==
  ASSUME TimeInv, Time!Save
  PROVE  TimeInv'
<1>1. /\ web = "idle" /\ put' \in Time!Settings /\ ~agreed'
      /\ web' \in {"idle", "zone", "servers", "both"}
      /\ put'.servers # put.servers => web' \in {"servers", "both"}
      /\ put'.zone # put.zone => web' \in {"zone", "both"}
      /\ UNCHANGED <<clock, season, chip, stray, flags, staged, sntp, ntp, crashed>>
  BY DEF Time!Save
<1>2. TimeOk'
  BY <1>1 DEF TimeInv, TimeOk, Time!Settings, WebPcs
<1>3. NearInv'
  BY <1>1 DEF TimeInv, NearInv, Fresh
<1> QED BY <1>1, <1>2, <1>3 DEF TimeInv, ClientInv, ServersInv, ZoneInv

LEMMA WebZoneStep ==
  ASSUME TimeInv, Time!WebZone
  PROVE  TimeInv'
<1> USE StorageAssumption
<1>1. /\ web \in {"zone", "both"} /\ clock' = [clock EXCEPT !.zone = put.zone]
      /\ web' = IF web = "both" THEN "servers" ELSE "idle"
      /\ UNCHANGED <<put, season, chip, stray, flags, staged, sntp, ntp, crashed, agreed>>
  BY DEF Time!WebZone
<1>2. /\ clock' \in [offset : Int, slew : Int, zone : Int] /\ clock'.zone = put.zone
      /\ clock'.offset = clock.offset /\ clock'.slew = clock.slew
  BY <1>1 DEF TimeInv, TimeOk
<1>3. TimeOk'
  BY <1>1, <1>2 DEF TimeInv, TimeOk, WebPcs
<1>4. NearInv'
  BY <1>1, <1>2 DEF TimeInv, NearInv, Fresh
<1> QED BY <1>1, <1>2, <1>3, <1>4 DEF TimeInv, ClientInv, ServersInv, ZoneInv

LEMMA WebServersStep ==
  ASSUME TimeInv, Time!WebServers
  PROVE  TimeInv'
<1> DEFINE Client == [running : BOOLEAN, names : {"task", "static"}, buffer : {"a", "b"}, mutex : {"free", "ntp", "web"}]
<1>1. UNCHANGED <<put, clock, season, chip, stray, flags, staged, ntp, crashed, agreed>>
  BY DEF Time!WebServers
<1>2. NearInv'
  BY <1>1, NearKept
<1>3. CASE web = "servers" /\ web' = "stop" /\ sntp' = Time!Copied
  <2>1. sntp' = [sntp EXCEPT !.buffer = put.servers]
    BY <1>3 DEF Time!Copied
  <2>2. /\ sntp' \in Client /\ sntp'.names = sntp.names /\ sntp'.mutex = sntp.mutex
        /\ sntp'.buffer = put.servers
    BY <2>1 DEF TimeInv, TimeOk
  <2>3. sntp'.running = sntp.running
    BY <2>1, Zenon DEF TimeInv, TimeOk
  <2>4. TimeOk'
    BY <1>1, <1>3, <2>2 DEF TimeInv, TimeOk, WebPcs
  <2> QED BY <1>1, <1>2, <1>3, <2>2, <2>3, <2>4 DEF TimeInv, ClientInv, ServersInv, ZoneInv
<1>4. CASE web = "stop" /\ Time!MayStop("web") /\ web' = "init" /\ sntp' = Time!Stopped("web")
  <2>1. sntp.mutex = "free" /\ sntp' = [sntp EXCEPT !.running = FALSE, !.mutex = "web"]
    BY <1>4 DEF Time!MayStop, Time!Stopped
  <2>2. /\ sntp' \in Client /\ sntp'.names = sntp.names /\ sntp'.mutex = "web"
        /\ sntp'.buffer = sntp.buffer
    BY <2>1 DEF TimeInv, TimeOk
  <2>3. ~sntp'.running
    BY <2>1, Zenon DEF TimeInv, TimeOk
  <2>4. TimeOk'
    BY <1>1, <1>4, <2>2 DEF TimeInv, TimeOk, WebPcs
  <2> QED BY <1>1, <1>2, <1>4, <2>1, <2>2, <2>3, <2>4 DEF TimeInv, ClientInv, ServersInv, ZoneInv
<1>5. CASE web = "init" /\ web' = "idle" /\ sntp' = Time!Started("static")
  <2>1. sntp' = [sntp EXCEPT !.running = TRUE, !.names = "static", !.mutex = "free"]
    BY <1>5 DEF Time!Started
  <2>2. sntp' \in Client /\ sntp'.mutex = "free" /\ sntp'.buffer = sntp.buffer
    BY <2>1 DEF TimeInv, TimeOk
  <2>3. sntp.mutex = "web"
    BY <1>5 DEF TimeInv, ClientInv
  <2>4. TimeOk'
    BY <1>1, <1>5, <2>2 DEF TimeInv, TimeOk, WebPcs
  <2> QED BY <1>1, <1>2, <1>5, <2>2, <2>3, <2>4 DEF TimeInv, ClientInv, ServersInv, ZoneInv
<1> QED BY <1>3, <1>4, <1>5 DEF Time!WebServers

LEMMA TimeInit == StorageInit => TimeInv
<1> SUFFICES ASSUME Time!Init PROVE TimeInv
  BY DEF StorageInit
<1> USE StorageAssumption
<1>1. PICK z \in Zones : put = [zone |-> z, servers |-> "a", mode |-> 2]
  BY DEF Time!Init
<1>2. z \in Int /\ put.zone = z /\ put \in [zone : Zones, servers : {"a", "b"}, mode : 0..2]
  BY <1>1
<1>3. /\ chip \in [state : Chips \cup {"ok"}, local : Int]
      /\ clock \in [offset : Int, slew : Int, zone : Int] /\ clock.zone = put.zone
  BY <1>2 DEF Time!Init
<1>4. flags \in [valid : BOOLEAN, synced : BOOLEAN, mode : 0..2, rate : Int]
  BY DEF Time!Init, Time!AtBoot
<1>5. /\ sntp = [running |-> FALSE, names |-> "task", buffer |-> "a", mutex |-> "free"]
      /\ ntp = [pc |-> "start", servers |-> "a", err |-> 0]
      /\ season = 0 /\ stray = 0 /\ staged = [on |-> FALSE, local |-> 0] /\ web = "idle" /\ ~crashed /\ ~agreed
  BY DEF Time!Init, Time!IdleSntp, Time!NoJob
<1>6. TimeOk
  BY <1>2, <1>3, <1>4, <1>5 DEF TimeOk, NtpPcs, WebPcs
<1> QED BY <1>3, <1>5, <1>6 DEF TimeInv, ClientInv, ServersInv, ZoneInv, NearInv, Fresh

LEMMA TimeStep == TimeInv /\ Bounds /\ [StorageNext]_storageVars => TimeInv'
<1> SUFFICES ASSUME TimeInv, Bounds, [StorageNext]_storageVars PROVE TimeInv'
  OBVIOUS
<1>1. CASE UNCHANGED timeVars
  BY <1>1 DEF timeVars, TimeInv, TimeOk, ClientInv, ServersInv, ZoneInv, NearInv, Fresh
<1>2. CASE Time!Next
  <2>1. CASE Time!Reboot \/ Time!SeasonTurns \/ Time!Answer
    BY <2>1, RebootStep, SeasonStep, AnswerStep
  <2>2. CASE Time!Minute
    BY <2>2, MinuteStep
  <2>3. CASE Time!NtpTask
    BY <2>3, NtpStartStep, NtpStopStep, NtpInitStep, WriteChipStep, DisciplineStep, AdjustStep, DailyStep
       DEF Time!NtpTask
  <2>4. CASE Time!Web
    BY <2>4, ServersStep, WebZoneStep, WebServersStep DEF Time!Web
  <2> QED BY <1>2, <2>1, <2>2, <2>3, <2>4 DEF Time!Next
<1> QED BY <1>1, <1>2 DEF StorageNext, storageVars, timeVars

\* README.md:888, ntp_time.c:63-69: for any zones, any season, and any crystal that strays
\* no further between two answers than one minute's correction reaches, the clock keeps
\* within the sum of both once an answer has reached the chip, the servers in force are
\* the ones saved last, and lwIP is never asked for its mode while it runs.
THEOREM TimeIsKept ==
  ASSUME Drift <= Slew, Slew + Drift <= Far
  PROVE  StorageSpec => []TimeKept
<1>1. StorageInit => TimeInv
  BY TimeInit
<1>2. TimeInv /\ [StorageNext]_storageVars => TimeInv'
  BY TimeStep DEF Bounds
<1>3. TimeInv => TimeKept
  BY DEF TimeInv, ClientInv, ServersInv, NearInv, Fresh, TimeKept, Time!TimeKept, Time!NeverAsserts
<1> QED BY <1>1, <1>2, <1>3, PTL DEF StorageSpec

-----------------------------------------------------------------------------
(* The theme folders *)

Gone(d) == ~d.there /\ Packs!Empty(d)
Honest(d) == d.mark # 0 /\ d.sound => Packs!Holds(d, d.mark)

Jobs == [op : {"none", "refresh", "install", "verify", "remove"}, pc : Packs!Steps \cup {"idle"},
         todo : SUBSET Files, ok : 0..1, fail : 0..1, had : BOOLEAN, seen : [Files -> 0..Packs!Other],
         before : Packs!Folders, calm : BOOLEAN, result : {"none", "failed"}]

PacksOk ==
  /\ dir \in Packs!Folders /\ aside \in Packs!Folders /\ tmJob \in Jobs
  /\ latest \in 1..RevMax /\ catalog \in 0..RevMax /\ saved \in 0..RevMax
  /\ (~dir.there => Gone(dir)) /\ (~aside.there => Gone(aside))

\* Only an extraction has files to do, and nobody changes the catalog under an install
\* before its files are there; one that has not moved the old folder yet has not failed.
JobInv ==
  /\ tmJob.pc # "extract" => tmJob.todo = {}
  /\ tmJob.pc \in {"sweep", "move", "extract"} \/ (tmJob.pc = "fetch" /\ tmJob.op = "install") => ~asked
  /\ tmJob.pc \in {"fetch", "sweep"} => ~tmJob.had

\* Where the folder, the new one and the old one are what their markers say.
MarkInv ==
  /\ tmJob.pc \notin {"extract", "judge", "undo", "files", "rest"} => Honest(dir)
  /\ tmJob.pc = "extract" /\ dir.sound =>
       dir.mark = 0 /\ (tmJob.fail = 0 => \A f \in Files \ tmJob.todo : dir.file[f] = catalog)
  /\ tmJob.pc = "judge" /\ tmJob.fail = 0 => Honest(dir)
  /\ tmJob.pc \in {"extract", "judge", "undo", "back"} /\ tmJob.had => Honest(aside)

\* Where the folder is that an install has found, until somebody else touches it.
CalmInv ==
  /\ tmJob.calm =>
       /\ tmJob.pc \in {"sweep", "move"} => dir = tmJob.before
       /\ tmJob.pc \in {"extract", "judge", "undo", "back"} =>
            IF tmJob.had THEN aside = tmJob.before ELSE Gone(tmJob.before)
       /\ tmJob.pc = "back" => Gone(dir)
  /\ tmJob.result = "failed" =>
       /\ tmJob.pc = "idle"
       /\ <<dir.there, dir.file, dir.mark>> = <<tmJob.before.there, tmJob.before.file, tmJob.before.mark>>

PacksInv == PacksOk /\ JobInv /\ MarkInv /\ CalmInv

LEMMA StepNames ==
  /\ {"fetch", "sweep", "move", "extract", "judge", "tidy", "undo", "back",
      "hash", "mark", "save", "switch", "files", "rest", "idle"} = Packs!Steps \cup {"idle"}
  /\ Packs!Other = RevMax + 1 /\ Packs!Other \in Nat /\ RevMax \in Nat
BY StorageAssumption DEF Packs!Steps, Packs!Other

LEMMA NoFolder == Packs!None \in Packs!Folders /\ Gone(Packs!None) /\ Honest(Packs!None)
BY StepNames DEF Packs!None, Packs!Folders, Gone, Packs!Empty, Packs!Holds, Packs!Pack, Honest

\* What is left of a folder after one entry is removed.
LEMMA LessOk ==
  ASSUME NEW d \in Packs!Folders, NEW e, Packs!Less(d, e), ~d.there => Gone(d)
  PROVE  e \in Packs!Folders /\ (~e.there => Gone(e))
<1>1. CASE \E f \in Files : d.file[f] # 0 /\ e = [d EXCEPT !.file[f] = 0]
  <2>1. PICK f \in Files : d.file[f] # 0 /\ e = [d EXCEPT !.file[f] = 0]
    BY <1>1
  <2>2. d.there
    BY <2>1 DEF Gone, Packs!Empty, Packs!Holds, Packs!Pack
  <2>3. d.file \in [Files -> 0..Packs!Other] /\ 0 \in 0..Packs!Other
    BY StepNames DEF Packs!Folders
  <2>4. [d.file EXCEPT ![f] = 0] \in [Files -> 0..Packs!Other]
    BY <2>3
  <2>5. e = [d EXCEPT !.file = [d.file EXCEPT ![f] = 0]]
    BY <2>1 DEF Packs!Folders
  <2>6. e \in Packs!Folders /\ e.there = d.there
    BY <2>4, <2>5 DEF Packs!Folders
  <2> QED BY <2>2, <2>6
<1>2. CASE d.mark # 0 /\ e = [d EXCEPT !.mark = 0]
  <2>1. d.there
    BY <1>2 DEF Gone, Packs!Empty
  <2>2. 0 \in 0..RevMax
    BY StepNames
  <2>3. e \in Packs!Folders /\ e.there = d.there
    BY <1>2, <2>2 DEF Packs!Folders
  <2> QED BY <2>1, <2>3
<1> QED BY <1>1, <1>2 DEF Packs!Less

LEMMA IdleJob ==
  /\ Packs!Idle \in Jobs
  /\ Packs!Idle.op = "none" /\ Packs!Idle.pc = "idle" /\ Packs!Idle.todo = {} /\ Packs!Idle.fail = 0
  /\ ~Packs!Idle.had /\ Packs!Idle.result = "none"
<1>1. Packs!Pack(0) \in [Files -> 0..Packs!Other]
  BY StepNames DEF Packs!Pack
<1>2. "idle" \in Packs!Steps \cup {"idle"}
  OBVIOUS
<1> QED BY <1>1, <1>2, NoFolder DEF Packs!Idle, Jobs

\* The ways a job goes on.
LEMMA GotoOk ==
  ASSUME tmJob \in Jobs, NEW pc2 \in Packs!Steps, Packs!Goto(pc2)
  PROVE  /\ tmJob' \in Jobs /\ tmJob'.pc = pc2 /\ tmJob'.op = tmJob.op /\ tmJob'.todo = tmJob.todo
         /\ tmJob'.fail = tmJob.fail /\ tmJob'.had = tmJob.had /\ tmJob'.before = tmJob.before
         /\ tmJob'.calm = tmJob.calm /\ tmJob'.result = tmJob.result /\ tmJob'.seen = tmJob.seen
BY DEF Packs!Goto, Jobs

LEMMA EndedOk ==
  ASSUME Packs!Ended
  PROVE  /\ tmJob' \in Jobs /\ tmJob'.pc = "idle" /\ tmJob'.todo = {} /\ ~tmJob'.had /\ tmJob'.result = "none"
BY IdleJob DEF Packs!Ended

LEMMA FailedOk ==
  ASSUME tmJob \in Jobs, Packs!Failed
  PROVE  /\ tmJob' \in Jobs /\ tmJob'.pc = "idle" /\ tmJob'.todo = {} /\ ~tmJob'.had
         /\ tmJob'.result = "failed" => tmJob.calm /\ tmJob'.before = tmJob.before
<1>1. CASE tmJob.calm
  <2>1. tmJob' = [Packs!Idle EXCEPT !.before = tmJob.before, !.result = "failed"]
    BY <1>1 DEF Packs!Failed
  <2>2. tmJob.before \in Packs!Folders
    BY DEF Jobs
  <2> QED BY <1>1, <2>1, <2>2, IdleJob DEF Jobs
<1>2. CASE ~tmJob.calm
  BY <1>2, IdleJob DEF Packs!Failed
<1> QED BY <1>1, <1>2

LEMMA StartOk ==
  ASSUME PacksInv, NEW op2 \in {"refresh", "install", "verify", "remove"}, NEW pc2 \in {"fetch", "hash", "switch"},
         tmJob' = [Packs!Idle EXCEPT !.op = op2, !.pc = pc2], tmJob.pc = "idle",
         UNCHANGED <<dir, aside, latest, saved>>, catalog' \in 0..RevMax,
         op2 = "install" => ~asked'
  PROVE  PacksInv'
<1>1. pc2 \in Packs!Steps \cup {"idle"}
  BY DEF Packs!Steps
<1>2. /\ tmJob' \in Jobs /\ tmJob'.pc = pc2 /\ tmJob'.op = op2 /\ tmJob'.todo = {} /\ ~tmJob'.had
      /\ tmJob'.result = "none"
  BY <1>1, IdleJob DEF Jobs
<1>3. PacksOk'
  BY <1>2 DEF PacksInv, PacksOk, Gone
<1>4. JobInv'
  BY <1>2 DEF JobInv
<1>5. Honest(dir)
  BY DEF PacksInv, MarkInv
<1>6. MarkInv'
  BY <1>2, <1>5 DEF MarkInv, Honest
<1> QED BY <1>2, <1>3, <1>4, <1>6 DEF PacksInv, CalmInv

LEMMA RequestsStep ==
  ASSUME PacksInv, Packs!Requests \/ Packs!Published
  PROVE  PacksInv'
<1>1. CASE Packs!Published
  <2>1. latest' \in 1..RevMax
    BY <1>1, StepNames DEF Packs!Published, PacksInv, PacksOk
  <2> QED BY <1>1, <2>1 DEF Packs!Published, PacksInv, PacksOk, JobInv, MarkInv, CalmInv, Gone, Honest
<1>2. CASE Packs!Refresh \/ Packs!Install \/ Packs!Verify \/ Packs!Remove
  <2>1. tmJob.pc = "idle" /\ UNCHANGED <<dir, aside, latest, saved, catalog, asked>>
    BY <1>2 DEF Packs!Refresh, Packs!Install, Packs!Verify, Packs!Remove, Packs!Start, Packs!Running
  <2>2. catalog' \in 0..RevMax
    BY <2>1 DEF PacksInv, PacksOk
  <2>3. PICK op2 \in {"refresh", "install", "verify", "remove"}, pc2 \in {"fetch", "hash", "switch"} :
          tmJob' = [Packs!Idle EXCEPT !.op = op2, !.pc = pc2] /\ (op2 = "install" => ~asked)
    BY <1>2 DEF Packs!Refresh, Packs!Install, Packs!Verify, Packs!Remove, Packs!Start
  <2> QED BY <2>1, <2>2, <2>3, StartOk
<1>3. CASE Packs!AutoCheck
  <2>1. /\ tmJob.pc = "idle" /\ tmJob' = [Packs!Idle EXCEPT !.op = "refresh", !.pc = "fetch"]
        /\ UNCHANGED <<dir, aside, latest, saved>> /\ catalog' \in {saved, catalog}
    BY <1>3 DEF Packs!AutoCheck, Packs!Running
  <2>2. catalog' \in 0..RevMax
    BY <2>1 DEF PacksInv, PacksOk
  <2> QED BY <2>1, <2>2, StartOk
<1>4. CASE Packs!RestoreAsked
  <2>1. tmJob.pc = "idle" /\ UNCHANGED <<dir, aside, latest, saved, catalog, tmJob>>
    BY <1>4 DEF Packs!RestoreAsked, Packs!Running
  <2> QED BY <2>1 DEF PacksInv, PacksOk, JobInv, MarkInv, CalmInv, Gone, Honest
<1>5. CASE Packs!RestoreEnds
  <2>1. asked /\ ~asked' /\ UNCHANGED <<dir, aside, latest, saved, tmJob>> /\ catalog' \in {saved, catalog}
    BY <1>5 DEF Packs!RestoreEnds
  <2>2. tmJob.pc # "extract"
    BY <2>1 DEF PacksInv, JobInv
  <2> QED BY <2>1, <2>2 DEF PacksInv, PacksOk, JobInv, MarkInv, CalmInv, Gone, Honest
<1> QED BY <1>1, <1>2, <1>3, <1>4, <1>5 DEF Packs!Requests

-----------------------------------------------------------------------------
(* An installation, step by step. *)

LEMMA FetchStep ==
  ASSUME PacksInv, Packs!CatalogCame \/ Packs!PackCame \/ Packs!FetchFails
  PROVE  PacksInv'
<1>1. tmJob.pc = "fetch" /\ tmJob \in Jobs /\ UNCHANGED <<dir, aside, latest, saved, asked>> /\ Honest(dir)
  BY DEF Packs!CatalogCame, Packs!PackCame, Packs!FetchFails, Packs!At, Packs!Catalogs, PacksInv, PacksOk, MarkInv
<1>2. CASE Packs!CatalogCame
  <2>1. Packs!Goto("hash") /\ catalog' = latest /\ "hash" \in Packs!Steps
    BY <1>2 DEF Packs!CatalogCame, Packs!Steps
  <2> QED BY <1>1, <2>1, GotoOk DEF PacksInv, PacksOk, JobInv, MarkInv, CalmInv, Gone, Honest
<1>3. CASE Packs!PackCame
  <2>1. tmJob' = [tmJob EXCEPT !.pc = "sweep", !.before = dir, !.calm = TRUE] /\ catalog' = catalog
        /\ tmJob.op = "install"
    BY <1>3 DEF Packs!PackCame, Packs!Catalogs
  <2>2. "sweep" \in Packs!Steps \cup {"idle"} /\ dir \in Packs!Folders /\ TRUE \in BOOLEAN
    BY DEF Packs!Steps, PacksInv, PacksOk
  <2>3. /\ tmJob' \in Jobs /\ tmJob'.pc = "sweep" /\ tmJob'.todo = tmJob.todo /\ tmJob'.had = tmJob.had
        /\ tmJob'.before = dir /\ tmJob'.result = tmJob.result
    BY <1>1, <2>1, <2>2 DEF Jobs
  <2> QED BY <1>1, <2>1, <2>3 DEF PacksInv, PacksOk, JobInv, MarkInv, CalmInv, Gone, Honest
<1>4. CASE Packs!FetchFails
  <2>1. Packs!Ended /\ catalog' = catalog
    BY <1>4 DEF Packs!FetchFails, Packs!Catalogs
  <2> QED BY <1>1, <2>1, EndedOk DEF PacksInv, PacksOk, JobInv, MarkInv, CalmInv, Gone, Honest
<1> QED BY <1>2, <1>3, <1>4

\* The old copy of an earlier install goes first, that of this one last.
LEMMA SweepAsideStep ==
  ASSUME PacksInv, Packs!OldSwept \/ Packs!Tidy
  PROVE  PacksInv'
<1>1. /\ tmJob.pc \in {"sweep", "tidy"} /\ tmJob \in Jobs
      /\ UNCHANGED <<dir, latest, saved, catalog, asked>> /\ Honest(dir)
  BY DEF Packs!OldSwept, Packs!Tidy, Packs!SweepAside, Packs!At, Packs!Catalogs, PacksInv, PacksOk, MarkInv
<1>2. CASE Packs!Less(aside, aside') /\ UNCHANGED tmJob
  <2>1. aside' \in Packs!Folders /\ (~aside'.there => Gone(aside'))
    BY <1>2, LessOk DEF PacksInv, PacksOk
  <2> QED BY <1>1, <1>2, <2>1 DEF PacksInv, PacksOk, JobInv, MarkInv, CalmInv, Gone, Honest
<1>3. CASE aside' = Packs!None /\ tmJob.pc = "sweep" /\ Packs!Goto("move")
  <2>1. aside' \in Packs!Folders /\ Gone(aside') /\ "move" \in Packs!Steps
    BY <1>3, NoFolder DEF Packs!Steps
  <2> QED BY <1>1, <1>3, <2>1, GotoOk DEF PacksInv, PacksOk, JobInv, MarkInv, CalmInv, Gone, Honest
<1>4. CASE aside' = Packs!None /\ Packs!Ended
  <2>1. aside' \in Packs!Folders /\ Gone(aside')
    BY <1>4, NoFolder
  <2> QED BY <1>1, <1>4, <2>1, EndedOk DEF PacksInv, PacksOk, JobInv, MarkInv, CalmInv, Gone, Honest
<1>5. \/ Packs!Less(aside, aside') /\ UNCHANGED tmJob
      \/ aside' = Packs!None /\ tmJob.pc = "sweep" /\ Packs!Goto("move")
      \/ aside' = Packs!None /\ Packs!Ended
  BY DEF Packs!OldSwept, Packs!Tidy, Packs!SweepAside, Packs!At
<1> QED BY <1>2, <1>3, <1>4, <1>5

\* A folder after something was written to file f.
Written(d, f, v) == [d EXCEPT !.there = TRUE, !.file[f] = v]

LEMMA FileOk ==
  ASSUME NEW d \in Packs!Folders, NEW f \in Files, NEW v \in 0..Packs!Other
  PROVE  /\ Written(d, f, v) \in Packs!Folders /\ Written(d, f, v).there
         /\ Written(d, f, v).mark = d.mark /\ Written(d, f, v).sound = d.sound
         /\ Written(d, f, v).file[f] = v
         /\ \A g \in Files : g # f => Written(d, f, v).file[g] = d.file[g]
<1>0. PICK e : e = Written(d, f, v)
  OBVIOUS
<1>1. d.file \in [Files -> 0..Packs!Other] /\ TRUE \in BOOLEAN
  BY DEF Packs!Folders
<1>2. PICK h \in [Files -> 0..Packs!Other] : h = [d.file EXCEPT ![f] = v]
  BY <1>1
<1>3. e = [d EXCEPT !.there = TRUE, !.file = h]
  BY <1>0, <1>2 DEF Packs!Folders, Written
<1>4. e \in Packs!Folders /\ e.there /\ e.mark = d.mark /\ e.sound = d.sound /\ e.file = h
  BY <1>1, <1>2, <1>3 DEF Packs!Folders
<1> QED BY <1>0, <1>1, <1>2, <1>4

LEMMA MoveAsideStep ==
  ASSUME PacksInv, Packs!MoveAside
  PROVE  PacksInv'
<1>1. /\ tmJob.pc = "move" /\ tmJob \in Jobs /\ aside' = dir /\ dir' = Packs!None
      /\ tmJob' = [tmJob EXCEPT !.pc = "extract", !.had = dir.there, !.todo = Files]
      /\ UNCHANGED <<latest, saved, catalog, asked>>
      /\ dir \in Packs!Folders /\ (~dir.there => Gone(dir)) /\ Honest(dir)
  BY DEF Packs!MoveAside, Packs!At, Packs!Catalogs, PacksInv, PacksOk, MarkInv
<1>2. "extract" \in Packs!Steps \cup {"idle"} /\ dir.there \in BOOLEAN /\ Files \in SUBSET Files
  BY <1>1 DEF Packs!Steps, Packs!Folders
<1>3. /\ tmJob' \in Jobs /\ tmJob'.pc = "extract" /\ tmJob'.todo = Files /\ tmJob'.had = dir.there
      /\ tmJob'.before = tmJob.before /\ tmJob'.calm = tmJob.calm /\ tmJob'.result = tmJob.result
  BY <1>1, <1>2 DEF Jobs
<1>4. dir' \in Packs!Folders /\ Gone(dir') /\ dir'.mark = 0
  BY <1>1, NoFolder DEF Packs!None
<1>5. PacksOk'
  BY <1>1, <1>3, <1>4 DEF PacksInv, PacksOk, Gone
<1>6. JobInv'
  BY <1>1, <1>3 DEF PacksInv, JobInv
<1>7. MarkInv'
  BY <1>1, <1>3, <1>4 DEF MarkInv, Honest
<1>8. CalmInv'
  BY <1>1, <1>3 DEF PacksInv, CalmInv, Gone
<1> QED BY <1>5, <1>6, <1>7, <1>8 DEF PacksInv

\* A step of the extraction on file f, well or badly, and on the marker, the last.
LEMMA FileStep ==
  ASSUME PacksInv, tmJob.pc = "extract", NEW f \in tmJob.todo, NEW v \in 0..Packs!Other,
         dir' = Written(dir, f, v), UNCHANGED <<aside, latest, saved, catalog, asked>>,
         tmJob' \in Jobs, tmJob'.pc = "extract", tmJob'.todo = tmJob.todo \ {f}, tmJob'.had = tmJob.had,
         tmJob'.before = tmJob.before, tmJob'.calm = tmJob.calm, tmJob'.result = tmJob.result,
         tmJob'.fail = 0 => tmJob.fail = 0 /\ v = catalog
  PROVE  PacksInv'
<1>1. f \in Files /\ dir \in Packs!Folders /\ tmJob.todo \subseteq Files
  BY DEF PacksInv, PacksOk, Jobs
<1>2. /\ dir' \in Packs!Folders /\ dir'.there /\ dir'.mark = dir.mark /\ dir'.sound = dir.sound
      /\ dir'.file[f] = v /\ \A g \in Files : g # f => dir'.file[g] = dir.file[g]
  BY <1>1, FileOk
<1>3. PacksOk'
  BY <1>2 DEF PacksInv, PacksOk, Gone
<1>4. JobInv'
  BY DEF PacksInv, JobInv
<1>5. MarkInv'
  BY <1>1, <1>2 DEF PacksInv, MarkInv, Honest
<1>6. CalmInv'
  BY DEF PacksInv, CalmInv, Gone
<1> QED BY <1>3, <1>4, <1>5, <1>6 DEF PacksInv

LEMMA ExtractStep ==
  ASSUME PacksInv, Packs!Extract \/ Packs!ExtractFails
  PROVE  PacksInv'
<1>1. /\ tmJob.pc = "extract" /\ tmJob \in Jobs /\ dir \in Packs!Folders /\ tmJob.todo \subseteq Files
      /\ UNCHANGED <<aside, latest, saved, catalog, asked>> /\ catalog \in 0..RevMax
  BY DEF Packs!Extract, Packs!ExtractFails, Packs!At, Packs!Catalogs, PacksInv, PacksOk, Jobs
<1>2. /\ catalog \in 0..Packs!Other /\ {0, Packs!Other} \subseteq 0..Packs!Other
      /\ "extract" \in Packs!Steps \cup {"idle"} /\ "judge" \in Packs!Steps \cup {"idle"}
  BY <1>1, StepNames DEF Packs!Steps
<1>0. PICK one \in 0..1 : one = 1
  OBVIOUS
<1>3. ASSUME NEW f \in tmJob.todo, dir' = Written(dir, f, catalog),
             tmJob' = [tmJob EXCEPT !.todo = tmJob.todo \ {f}, !.ok = IF dir.file[f] = catalog THEN tmJob.ok ELSE 1]
      PROVE  PacksInv'
  <2>1. PICK o \in 0..1 : o = IF dir.file[f] = catalog THEN tmJob.ok ELSE 1
    BY <1>1 DEF Jobs
  <2>2. PICK rest \in SUBSET Files : rest = tmJob.todo \ {f}
    BY <1>1
  <2>3. tmJob' = [tmJob EXCEPT !.todo = rest, !.ok = o]
    BY <1>3, <2>1, <2>2
  <2>4. /\ tmJob' \in Jobs /\ tmJob'.pc = tmJob.pc /\ tmJob'.todo = rest /\ tmJob'.had = tmJob.had
        /\ tmJob'.before = tmJob.before /\ tmJob'.calm = tmJob.calm /\ tmJob'.result = tmJob.result
        /\ tmJob'.fail = tmJob.fail
    BY <1>1, <2>3 DEF Jobs
  <2> QED BY <1>1, <1>2, <1>3, <2>2, <2>4, FileStep
<1>4. ASSUME NEW f \in tmJob.todo, NEW v \in {0, Packs!Other}, dir' = Written(dir, f, v),
             tmJob' = [tmJob EXCEPT !.todo = tmJob.todo \ {f}, !.fail = 1]
      PROVE  PacksInv'
  <2>1. PICK rest \in SUBSET Files : rest = tmJob.todo \ {f}
    BY <1>1
  <2>2. tmJob' = [tmJob EXCEPT !.todo = rest, !.fail = one]
    BY <1>0, <1>4, <2>1
  <2>3. /\ tmJob' \in Jobs /\ tmJob'.pc = tmJob.pc /\ tmJob'.todo = rest /\ tmJob'.had = tmJob.had
        /\ tmJob'.before = tmJob.before /\ tmJob'.calm = tmJob.calm /\ tmJob'.result = tmJob.result
        /\ tmJob'.fail = 1
    BY <1>0, <1>1, <2>2 DEF Jobs
  <2>4. v \in 0..Packs!Other
    BY <1>2, StepNames
  <2> QED BY <1>1, <1>4, <2>1, <2>3, <2>4, FileStep
<1>5. CASE /\ tmJob.todo = {} /\ dir' = [dir EXCEPT !.there = TRUE, !.mark = catalog]
           /\ tmJob' = [tmJob EXCEPT !.pc = "judge", !.ok = 1]
  <2>0. tmJob' = [tmJob EXCEPT !.pc = "judge", !.ok = one]
    BY <1>0, <1>5
  <2>1. /\ tmJob' \in Jobs /\ tmJob'.pc = "judge" /\ tmJob'.todo = {} /\ tmJob'.had = tmJob.had
        /\ tmJob'.before = tmJob.before /\ tmJob'.calm = tmJob.calm /\ tmJob'.result = tmJob.result
        /\ tmJob'.fail = tmJob.fail
    BY <1>1, <1>2, <1>0, <1>5, <2>0 DEF Jobs
  <2>2. /\ dir' \in Packs!Folders /\ dir'.there /\ dir'.mark = catalog /\ dir'.sound = dir.sound
        /\ dir'.file = dir.file /\ dir.file \in [Files -> 0..Packs!Other]
    BY <1>1, <1>5 DEF Packs!Folders
  <2>3. tmJob.fail = 0 => Honest(dir')
    BY <1>1, <1>5, <2>2 DEF PacksInv, MarkInv, Honest, Packs!Holds, Packs!Pack
  <2>4. PacksOk'
    BY <1>1, <2>1, <2>2 DEF PacksInv, PacksOk, Gone
  <2>5. MarkInv'
    BY <1>1, <2>1, <2>3 DEF PacksInv, MarkInv, Honest
  <2> QED BY <1>1, <2>1, <2>4, <2>5 DEF PacksInv, JobInv, CalmInv, Gone
<1>6. CASE tmJob.todo = {} /\ dir' = dir /\ tmJob' = [tmJob EXCEPT !.pc = "judge", !.fail = 1]
  <2>0. tmJob' = [tmJob EXCEPT !.pc = "judge", !.fail = one]
    BY <1>0, <1>6
  <2>1. /\ tmJob' \in Jobs /\ tmJob'.pc = "judge" /\ tmJob'.todo = {} /\ tmJob'.had = tmJob.had
        /\ tmJob'.before = tmJob.before /\ tmJob'.calm = tmJob.calm /\ tmJob'.result = tmJob.result
        /\ tmJob'.fail = 1
    BY <1>1, <1>2, <1>0, <1>6, <2>0 DEF Jobs
  <2>2. PacksOk'
    BY <1>1, <1>6, <2>1 DEF PacksInv, PacksOk, Gone
  <2>3. MarkInv'
    BY <1>1, <2>1 DEF PacksInv, MarkInv, Honest
  <2> QED BY <1>1, <2>1, <2>2, <2>3 DEF PacksInv, JobInv, CalmInv, Gone
<1> QED BY <1>3, <1>4, <1>5, <1>6 DEF Packs!Extract, Packs!ExtractFails, Packs!LastOfAll, Written

LEMMA JudgeStep ==
  ASSUME PacksInv, Packs!Judge
  PROVE  PacksInv'
<1>1. /\ tmJob.pc = "judge" /\ tmJob \in Jobs /\ tmJob.todo = {}
      /\ UNCHANGED <<dir, aside, latest, saved, catalog, asked>>
      /\ (tmJob.fail = 0 => Honest(dir))
      /\ "tidy" \in Packs!Steps /\ "undo" \in Packs!Steps
  BY DEF Packs!Judge, Packs!At, Packs!Catalogs, PacksInv, PacksOk, JobInv, MarkInv, Packs!Steps
<1>2. CASE tmJob.fail = 0 /\ Packs!Goto("tidy")
  BY <1>1, <1>2, GotoOk DEF PacksInv, PacksOk, JobInv, MarkInv, CalmInv, Gone, Honest
<1>3. CASE tmJob.fail = 0 /\ Packs!Ended
  BY <1>1, <1>3, EndedOk DEF PacksInv, PacksOk, JobInv, MarkInv, CalmInv, Gone, Honest
<1>4. CASE Packs!Goto("undo")
  BY <1>1, <1>4, GotoOk DEF PacksInv, PacksOk, JobInv, MarkInv, CalmInv, Gone, Honest
<1> QED BY <1>2, <1>3, <1>4 DEF Packs!Judge, Packs!Complete

LEMMA SweepDirStep ==
  ASSUME PacksInv, Packs!Undo \/ Packs!RemoveRest
  PROVE  PacksInv'
<1>1. /\ tmJob.pc \in {"undo", "rest"} /\ tmJob \in Jobs
      /\ UNCHANGED <<aside, latest, saved, catalog, asked>> /\ "back" \in Packs!Steps
  BY DEF Packs!Undo, Packs!RemoveRest, Packs!SweepDir, Packs!At, Packs!Catalogs, PacksInv, PacksOk, Packs!Steps
<1>2. CASE Packs!Less(dir, dir') /\ UNCHANGED tmJob
  <2>1. dir' \in Packs!Folders /\ (~dir'.there => Gone(dir'))
    BY <1>2, LessOk DEF PacksInv, PacksOk
  <2> QED BY <1>1, <1>2, <2>1 DEF PacksInv, PacksOk, JobInv, MarkInv, CalmInv, Gone, Honest
<1>3. CASE dir' = Packs!None /\ ((tmJob.pc = "undo" /\ Packs!Goto("back")) \/ Packs!Ended)
  <2>1. dir' \in Packs!Folders /\ Gone(dir') /\ Honest(dir')
    BY <1>3, NoFolder
  <2>2. CASE tmJob.pc = "undo" /\ Packs!Goto("back")
    BY <1>1, <2>1, <2>2, GotoOk DEF PacksInv, PacksOk, JobInv, MarkInv, CalmInv, Gone, Honest
  <2>3. CASE Packs!Ended
    BY <1>1, <2>1, <2>3, EndedOk DEF PacksInv, PacksOk, JobInv, MarkInv, CalmInv, Gone, Honest
  <2> QED BY <1>3, <2>2, <2>3
<1> QED BY <1>2, <1>3 DEF Packs!Undo, Packs!RemoveRest, Packs!SweepDir, Packs!At

LEMMA PutBackStep ==
  ASSUME PacksInv, Packs!PutBack
  PROVE  PacksInv'
<1>1. /\ tmJob.pc = "back" /\ tmJob \in Jobs /\ Packs!Failed /\ UNCHANGED <<latest, saved, catalog, asked>>
      /\ dir \in Packs!Folders /\ aside \in Packs!Folders /\ Honest(dir) /\ (tmJob.had => Honest(aside))
      /\ (~dir.there => Gone(dir)) /\ (~aside.there => Gone(aside))
      /\ (tmJob.calm => Gone(dir) /\ IF tmJob.had THEN aside = tmJob.before ELSE Gone(tmJob.before))
  BY DEF Packs!PutBack, Packs!At, Packs!Catalogs, PacksInv, PacksOk, MarkInv, CalmInv
<1>2. /\ tmJob' \in Jobs /\ tmJob'.pc = "idle" /\ tmJob'.todo = {} /\ ~tmJob'.had
      /\ tmJob'.result = "failed" => tmJob.calm /\ tmJob'.before = tmJob.before
  BY <1>1, FailedOk
<1>3. CASE tmJob.had /\ dir' = aside /\ aside' = Packs!None
  <2>1. PacksOk'
    BY <1>1, <1>2, <1>3, NoFolder DEF PacksInv, PacksOk, Gone
  <2> QED BY <1>1, <1>2, <1>3, <2>1 DEF PacksInv, JobInv, MarkInv, CalmInv, Honest
<1>4. CASE ~(tmJob.had /\ Packs!Empty(dir)) /\ UNCHANGED <<dir, aside>>
  <2>1. PacksOk'
    BY <1>1, <1>2, <1>4 DEF PacksInv, PacksOk, Gone
  <2>2. tmJob.calm => Gone(dir) /\ Gone(tmJob.before)
    BY <1>1, <1>4 DEF Gone
  <2>3. tmJob.calm => <<dir.there, dir.file, dir.mark>> = <<tmJob.before.there, tmJob.before.file, tmJob.before.mark>>
    <3>1. tmJob.before \in Packs!Folders
      BY <1>1 DEF Jobs
    <3> QED BY <1>1, <2>2, <3>1 DEF Gone, Packs!Empty, Packs!Holds, Packs!Folders
  <2> QED BY <1>1, <1>2, <1>4, <2>1, <2>3 DEF PacksInv, JobInv, MarkInv, CalmInv, Honest
<1> QED BY <1>3, <1>4 DEF Packs!PutBack, Packs!Back

\* A folder that is touched while its history is still sound, or no longer.
LEMMA HistoryOk ==
  ASSUME NEW d \in Packs!Folders, NEW b \in BOOLEAN, NEW e, e = [d EXCEPT !.sound = b]
  PROVE  e \in Packs!Folders /\ e.there = d.there /\ e.file = d.file /\ e.mark = d.mark /\ e.sound = b
BY DEF Packs!Folders

LEMMA RemoveFailsStep ==
  ASSUME PacksInv, Packs!RemoveFails
  PROVE  PacksInv'
<1>1. /\ tmJob \in Jobs /\ dir \in Packs!Folders /\ UNCHANGED <<aside, latest, saved, catalog, asked>>
      /\ (~dir.there => Gone(dir))
  BY DEF Packs!RemoveFails, Packs!Catalogs, PacksInv, PacksOk
<1>2. PICK b \in BOOLEAN : b = (dir.sound /\ tmJob.pc \in {"sweep", "tidy"})
  OBVIOUS
<1>3. dir' = [dir EXCEPT !.sound = b]
  BY <1>2 DEF Packs!RemoveFails
<1>4. /\ dir' \in Packs!Folders /\ dir'.there = dir.there /\ dir'.file = dir.file /\ dir'.mark = dir.mark
      /\ dir'.sound = b
  BY <1>1, <1>3, HistoryOk
<1>5. dir'.sound => dir.sound /\ tmJob.pc \in {"sweep", "tidy"}
  BY <1>2, <1>4
<1>6. (Gone(dir) => Gone(dir')) /\ (tmJob.pc \in {"sweep", "tidy"} /\ Honest(dir) => Honest(dir'))
      /\ (~dir'.sound => Honest(dir'))
  BY <1>4, <1>5 DEF Gone, Honest, Packs!Empty, Packs!Holds
<1>7. CASE tmJob.pc = "sweep" /\ dir.there /\ Packs!Failed
  <2>1. /\ tmJob' \in Jobs /\ tmJob'.pc = "idle" /\ tmJob'.todo = {} /\ ~tmJob'.had
        /\ tmJob'.result = "failed" => tmJob.calm /\ tmJob'.before = tmJob.before
    BY <1>1, <1>7, FailedOk
  <2>2. tmJob.calm => dir = tmJob.before
    BY <1>7 DEF PacksInv, CalmInv
  <2>3. Honest(dir)
    BY <1>7 DEF PacksInv, MarkInv
  <2> QED BY <1>1, <1>4, <1>6, <1>7, <2>1, <2>2, <2>3 DEF PacksInv, PacksOk, JobInv, MarkInv, CalmInv
<1>8. CASE tmJob.pc = "sweep" /\ ~dir.there /\ tmJob' = [tmJob EXCEPT !.pc = "extract", !.todo = Files]
  <2>1. "extract" \in Packs!Steps \cup {"idle"} /\ Files \in SUBSET Files
    BY DEF Packs!Steps
  <2>2. /\ tmJob' \in Jobs /\ tmJob'.pc = "extract" /\ tmJob'.todo = Files /\ tmJob'.had = tmJob.had
        /\ tmJob'.before = tmJob.before /\ tmJob'.calm = tmJob.calm /\ tmJob'.result = tmJob.result
    BY <1>1, <1>8, <2>1 DEF Jobs
  <2>3. ~tmJob.had /\ ~asked /\ (tmJob.calm => Gone(tmJob.before)) /\ Gone(dir')
    BY <1>1, <1>6, <1>8 DEF PacksInv, JobInv, CalmInv
  <2>4. dir'.mark = 0
    BY <2>3 DEF Gone, Packs!Empty
  <2>5. PacksOk'
    BY <1>1, <1>4, <2>2, <2>3 DEF PacksInv, PacksOk, Gone
  <2>6. JobInv'
    BY <1>1, <2>2, <2>3 DEF JobInv
  <2>7. MarkInv'
    BY <2>2, <2>3, <2>4 DEF MarkInv
  <2>8. CalmInv'
    BY <1>8, <2>2, <2>3 DEF PacksInv, CalmInv, Gone
  <2> QED BY <2>5, <2>6, <2>7, <2>8 DEF PacksInv
<1>9. CASE tmJob.pc = "undo" /\ tmJob' = [tmJob EXCEPT !.calm = FALSE, !.pc = "back"]
  <2>1. "back" \in Packs!Steps \cup {"idle"} /\ FALSE \in BOOLEAN
    BY DEF Packs!Steps
  <2>2. /\ tmJob' \in Jobs /\ tmJob'.pc = "back" /\ tmJob'.todo = tmJob.todo /\ tmJob'.had = tmJob.had
        /\ tmJob'.before = tmJob.before /\ tmJob'.calm = FALSE /\ tmJob'.result = tmJob.result
    BY <1>1, <1>9, <2>1 DEF Jobs
  <2>3. Honest(dir') /\ (tmJob.had => Honest(aside)) /\ tmJob.todo = {} /\ tmJob.result # "failed"
    BY <1>5, <1>6, <1>9 DEF PacksInv, JobInv, MarkInv, CalmInv
  <2> QED BY <1>1, <1>4, <1>6, <1>9, <2>2, <2>3 DEF PacksInv, PacksOk, JobInv, MarkInv, CalmInv, Gone, Honest
<1>10. CASE tmJob.pc \in {"tidy", "rest"} /\ Packs!Ended
  <2>1. /\ tmJob' \in Jobs /\ tmJob'.pc = "idle" /\ tmJob'.todo = {} /\ ~tmJob'.had /\ tmJob'.result = "none"
    BY <1>10, EndedOk
  <2>2. Honest(dir')
    BY <1>5, <1>6, <1>10 DEF PacksInv, MarkInv
  <2> QED BY <1>1, <1>4, <1>6, <2>1, <2>2 DEF PacksInv, PacksOk, JobInv, MarkInv, CalmInv, Gone
<1> QED BY <1>7, <1>8, <1>9, <1>10 DEF Packs!RemoveFails, Packs!At

-----------------------------------------------------------------------------
(* The hashes, the catalog and the removal *)

\* Steps of the job that leave the folders and the catalog in RAM alone.
LEMMA GoesOn ==
  ASSUME PacksInv, tmJob.pc \in {"hash", "mark", "save"}, dir' \in Packs!Folders, Honest(dir'),
         ~dir'.there => Gone(dir'), UNCHANGED <<aside, latest, catalog, asked>>, saved' \in {catalog, saved},
         Packs!Goto("save") \/ Packs!Ended
  PROVE  PacksInv'
<1>1. tmJob \in Jobs /\ "save" \in Packs!Steps /\ saved' \in 0..RevMax
  BY DEF PacksInv, PacksOk, Packs!Steps
<1>2. CASE Packs!Goto("save")
  BY <1>1, <1>2, GotoOk DEF PacksInv, PacksOk, JobInv, MarkInv, CalmInv, Gone, Honest
<1>3. CASE Packs!Ended
  BY <1>1, <1>3, EndedOk DEF PacksInv, PacksOk, JobInv, MarkInv, CalmInv, Gone, Honest
<1> QED BY <1>2, <1>3

LEMMA HashStep ==
  ASSUME PacksInv, Packs!Hash \/ Packs!VerifySkips \/ Packs!SaveCatalog
  PROVE  PacksInv'
<1>1. /\ tmJob.pc \in {"hash", "save"} /\ tmJob \in Jobs /\ dir \in Packs!Folders /\ Honest(dir)
      /\ (~dir.there => Gone(dir))
      /\ UNCHANGED <<dir, aside, latest, catalog, asked>> /\ saved' \in {catalog, saved}
  BY DEF Packs!Hash, Packs!VerifySkips, Packs!SaveCatalog, Packs!At, Packs!Catalogs, PacksInv, PacksOk, MarkInv
<1>2. CASE Packs!Hash /\ tmJob' = [tmJob EXCEPT !.pc = "mark", !.seen = dir.file]
  <2>1. "mark" \in Packs!Steps \cup {"idle"} /\ dir.file \in [Files -> 0..Packs!Other]
    BY <1>1 DEF Packs!Steps, Packs!Folders
  <2>2. /\ tmJob' \in Jobs /\ tmJob'.pc = "mark" /\ tmJob'.todo = tmJob.todo
        /\ tmJob'.calm = tmJob.calm /\ tmJob'.before = tmJob.before /\ tmJob'.result = tmJob.result
    BY <1>1, <1>2, <2>1 DEF Jobs
  <2>3. tmJob.pc = "hash" /\ saved' = saved
    BY <1>2 DEF Packs!Hash, Packs!At, Packs!Catalogs
  <2> QED BY <1>1, <2>2, <2>3 DEF PacksInv, PacksOk, JobInv, MarkInv, CalmInv, Gone, Honest
<1>3. CASE Packs!Goto("save") \/ Packs!Ended
  <2>1. dir' \in Packs!Folders /\ Honest(dir') /\ (~dir'.there => Gone(dir'))
    BY <1>1
  <2> QED BY <1>1, <1>3, <2>1, GoesOn
<1> QED BY <1>2, <1>3 DEF Packs!Hash, Packs!VerifySkips, Packs!SaveCatalog, Packs!Hashed

LEMMA MarkStep ==
  ASSUME PacksInv, Packs!Mark
  PROVE  PacksInv'
<1>1. /\ tmJob.pc = "mark" /\ tmJob \in Jobs /\ dir \in Packs!Folders /\ catalog \in 0..RevMax
      /\ (~dir.there => Gone(dir)) /\ UNCHANGED <<aside, latest, catalog, asked, saved>>
      /\ (Packs!Goto("save") \/ Packs!Ended)
  BY DEF Packs!Mark, Packs!At, Packs!Catalogs, Packs!Hashed, PacksInv, PacksOk
<1>2. PICK m : m = IF dir.there THEN Packs!Marker(dir.mark, tmJob.seen) ELSE 0
  OBVIOUS
<1>3. m \in 0..RevMax /\ (m # 0 => dir.there /\ tmJob.seen = Packs!Pack(m))
  BY <1>1, <1>2, StepNames DEF Packs!Marker, Packs!Folders
<1>4. PICK b \in BOOLEAN : b = (dir.file = tmJob.seen)
  OBVIOUS
<1>5. dir' = [dir EXCEPT !.mark = m, !.sound = b]
  BY <1>2, <1>4 DEF Packs!Mark
<1>6. /\ dir' \in Packs!Folders /\ dir'.there = dir.there /\ dir'.file = dir.file /\ dir'.mark = m
      /\ dir'.sound = b
  BY <1>1, <1>3, <1>5 DEF Packs!Folders
<1>7. Honest(dir') /\ (~dir'.there => Gone(dir'))
  BY <1>1, <1>3, <1>4, <1>6 DEF Honest, Gone, Packs!Empty, Packs!Holds
<1> QED BY <1>1, <1>6, <1>7, GoesOn

LEMMA RemoveStep ==
  ASSUME PacksInv, Packs!Switch \/ Packs!RemoveFiles
  PROVE  PacksInv'
<1>1. /\ tmJob.pc \in {"switch", "files"} /\ tmJob \in Jobs /\ UNCHANGED <<aside, latest, saved, catalog, asked>>
      /\ dir \in Packs!Folders /\ "files" \in Packs!Steps /\ "rest" \in Packs!Steps
  BY DEF Packs!Switch, Packs!RemoveFiles, Packs!At, Packs!Catalogs, PacksInv, PacksOk, Packs!Steps
<1>2. CASE Packs!Goto("files") /\ UNCHANGED dir
  BY <1>1, <1>2, GotoOk DEF PacksInv, PacksOk, JobInv, MarkInv, CalmInv, Gone, Honest
<1>3. CASE Packs!Goto("rest") /\ UNCHANGED dir
  BY <1>1, <1>3, GotoOk DEF PacksInv, PacksOk, JobInv, MarkInv, CalmInv, Gone, Honest
<1>4. CASE tmJob.pc = "files" /\ Packs!Less(dir, dir') /\ UNCHANGED tmJob
  <2>1. dir' \in Packs!Folders /\ (~dir'.there => Gone(dir'))
    BY <1>4, LessOk DEF PacksInv, PacksOk
  <2> QED BY <1>1, <1>4, <2>1 DEF PacksInv, PacksOk, JobInv, MarkInv, CalmInv, Gone, Honest
<1> QED BY <1>1, <1>2, <1>3, <1>4 DEF Packs!Switch, Packs!RemoveFiles, Packs!Less, Packs!At

-----------------------------------------------------------------------------
(* The file browser, the settings and power *)

LEMMA ByHandStep ==
  ASSUME PacksInv, NEW new \in Packs!Folders, new.there \/ new = Packs!None, Packs!ByHand(new)
  PROVE  PacksInv'
<1>1. tmJob \in Jobs /\ UNCHANGED <<aside, latest, saved, catalog, asked>>
  BY DEF Packs!ByHand, Packs!Catalogs, PacksInv, PacksOk
<1>2. PICK b \in BOOLEAN : b = ~(new.there \/ tmJob.pc # "idle")
  OBVIOUS
<1>3. dir' = [new EXCEPT !.sound = b]
  BY <1>2 DEF Packs!ByHand, Packs!Running
<1>4. /\ dir' \in Packs!Folders /\ dir'.there = new.there /\ dir'.file = new.file /\ dir'.mark = new.mark
      /\ dir'.sound = b
  BY <1>3, HistoryOk
<1>5. (~dir'.there => Gone(dir')) /\ Honest(dir') /\ (tmJob.pc # "idle" => ~dir'.sound)
  BY <1>2, <1>4, NoFolder DEF Gone, Honest, Packs!Empty, Packs!Holds
<1>6. CASE tmJob.pc # "idle"
  <2>1. tmJob' = [tmJob EXCEPT !.calm = FALSE] /\ FALSE \in BOOLEAN
    BY <1>6 DEF Packs!ByHand, Packs!Running
  <2>2. /\ tmJob' \in Jobs /\ tmJob'.pc = tmJob.pc /\ tmJob'.todo = tmJob.todo /\ tmJob'.had = tmJob.had
        /\ tmJob'.calm = FALSE /\ tmJob'.result = tmJob.result /\ tmJob'.op = tmJob.op
    BY <1>1, <2>1 DEF Jobs
  <2>3. tmJob.result # "failed"
    BY <1>6 DEF PacksInv, CalmInv
  <2>4. MarkInv'
    BY <1>1, <1>5, <1>6, <2>2 DEF PacksInv, MarkInv, Honest
  <2> QED BY <1>1, <1>4, <1>5, <2>2, <2>3, <2>4 DEF PacksInv, PacksOk, JobInv, CalmInv, Gone
<1>7. CASE tmJob.pc = "idle"
  <2>1. tmJob' = Packs!Idle
    BY <1>7 DEF Packs!ByHand, Packs!Running
  <2> QED BY <1>1, <1>4, <1>5, <2>1, IdleJob DEF PacksInv, PacksOk, JobInv, MarkInv, CalmInv, Gone
<1> QED BY <1>6, <1>7

LEMMA HandStep ==
  ASSUME PacksInv, Packs!Hand
  PROVE  PacksInv'
<1>1. dir \in Packs!Folders /\ 0 \in 0..Packs!Other /\ Packs!Other \in 0..Packs!Other
  BY StepNames DEF PacksInv, PacksOk
<1>2. ASSUME NEW f \in Files, Packs!Upload(f)
      PROVE  PacksInv'
  <2>1. PICK e : e = Written(dir, f, Packs!Other)
    OBVIOUS
  <2>2. e \in Packs!Folders /\ e.there
    BY <1>1, <2>1, FileOk
  <2>3. Packs!ByHand(e)
    BY <1>2, <2>1 DEF Packs!Upload, Written
  <2> QED BY <2>2, <2>3, ByHandStep
<1>3. ASSUME NEW f \in Files, Packs!Delete(f)
      PROVE  PacksInv'
  <2>1. PICK e : e = [dir EXCEPT !.file[f] = 0]
    OBVIOUS
  <2>2. dir.file[f] # 0 /\ Packs!ByHand(e)
    BY <1>3, <2>1 DEF Packs!Delete
  <2>3. dir.there
    BY <2>2 DEF PacksInv, PacksOk, Gone, Packs!Empty, Packs!Holds, Packs!Pack
  <2>4. Packs!Less(dir, e)
    BY <2>1, <2>2 DEF Packs!Less
  <2>5. e \in Packs!Folders
    BY <1>1, <2>3, <2>4, LessOk
  <2>6. e.there = dir.there
    BY <1>1, <2>1 DEF Packs!Folders
  <2> QED BY <2>2, <2>3, <2>5, <2>6, ByHandStep
<1>4. CASE Packs!DeleteTheme
  BY <1>4, NoFolder, ByHandStep DEF Packs!DeleteTheme
<1>5. CASE Packs!Choose
  BY <1>5 DEF Packs!Choose, Packs!Catalogs, PacksInv, PacksOk, JobInv, MarkInv, CalmInv, Gone, Honest
<1> QED BY <1>2, <1>3, <1>4, <1>5 DEF Packs!Hand

\* What is on flash when the power is cut.
CutDir == {dir} \cup {Written(dir, f, Packs!Other) : f \in tmJob.todo}

LEMMA PowerCutStep ==
  ASSUME PacksInv, Packs!PowerCut
  PROVE  PacksInv'
<1>1. /\ tmJob \in Jobs /\ tmJob.todo \subseteq Files /\ dir \in Packs!Folders /\ (~dir.there => Gone(dir))
      /\ tmJob' = Packs!Idle /\ catalog' = 0 /\ asked' = FALSE /\ UNCHANGED <<aside, latest, saved>>
  BY DEF Packs!PowerCut, PacksInv, PacksOk, Jobs
<1>0. Packs!Other \in 0..Packs!Other /\ 0 \in 0..RevMax
  BY StepNames
<1>2. PICK d \in CutDir :
        dir' = [d EXCEPT !.sound = ~d.there \/ (d.sound /\ tmJob.pc \notin {"files", "rest", "undo"} /\ tmJob.fail = 0)]
  BY DEF Packs!PowerCut, CutDir, Written
<1>3. /\ d \in Packs!Folders /\ (~d.there => Gone(d)) /\ d.mark = dir.mark /\ d.sound = dir.sound
      /\ (tmJob.pc # "extract" => d = dir)
  <2>1. CASE d = dir
    BY <1>1, <2>1
  <2>2. ASSUME NEW f \in tmJob.todo, d = Written(dir, f, Packs!Other)
        PROVE  /\ d \in Packs!Folders /\ d.there /\ d.mark = dir.mark /\ d.sound = dir.sound
               /\ tmJob.pc = "extract"
    <3>1. f \in Files /\ tmJob.pc = "extract"
      BY <1>1 DEF PacksInv, JobInv
    <3>2. dir \in Packs!Folders
      BY <1>1
    <3>3. Written(dir, f, Packs!Other) \in Packs!Folders /\ Written(dir, f, Packs!Other).there
          /\ Written(dir, f, Packs!Other).mark = dir.mark /\ Written(dir, f, Packs!Other).sound = dir.sound
      BY <1>0, <3>1, <3>2, FileOk
    <3> QED BY <2>2, <3>1, <3>3
  <2> QED BY <1>2, <2>1, <2>2 DEF CutDir
<1>4. PICK b \in BOOLEAN :
        b = (~d.there \/ (d.sound /\ tmJob.pc \notin {"files", "rest", "undo"} /\ tmJob.fail = 0))
  OBVIOUS
<1>5. dir' = [d EXCEPT !.sound = b]
  BY <1>2, <1>4
<1>6. /\ dir' \in Packs!Folders /\ dir'.there = d.there /\ dir'.file = d.file /\ dir'.mark = d.mark
      /\ dir'.sound = b
  BY <1>3, <1>5, HistoryOk
<1>7. ~dir'.there => Gone(dir')
  BY <1>3, <1>6 DEF Gone, Packs!Empty, Packs!Holds
<1>8. Honest(dir')
  <2> SUFFICES ASSUME dir'.mark # 0, dir'.sound PROVE Packs!Holds(dir', dir'.mark)
    BY DEF Honest
  <2>1. d.mark # 0 /\ d.there
    BY <1>3, <1>6 DEF Gone, Packs!Empty
  <2>2. d.sound /\ tmJob.pc \notin {"files", "rest", "undo"} /\ tmJob.fail = 0
    BY <1>4, <1>6, <2>1
  <2>3. tmJob.pc # "extract"
    BY <1>3, <2>1, <2>2 DEF PacksInv, MarkInv
  <2>4. Honest(dir) /\ d = dir
    BY <1>3, <2>2, <2>3 DEF PacksInv, MarkInv
  <2> QED BY <1>6, <2>1, <2>2, <2>4 DEF Honest, Packs!Holds
<1>9. tmJob' \in Jobs /\ tmJob'.pc = "idle" /\ tmJob'.todo = {} /\ ~tmJob'.had /\ tmJob'.result = "none"
  BY <1>1, IdleJob
<1>10. PacksOk'
  BY <1>0, <1>1, <1>6, <1>7, <1>9 DEF PacksInv, PacksOk, Gone
<1> QED BY <1>1, <1>8, <1>9, <1>10 DEF PacksInv, JobInv, MarkInv, CalmInv

LEMMA PacksInit == StorageInit => PacksInv
<1> SUFFICES ASSUME StorageInit PROVE PacksInv
  OBVIOUS
<1>1. /\ aside = Packs!None /\ latest = 1 /\ catalog = 0 /\ saved = 0 /\ asked = FALSE /\ tmJob = Packs!Idle
      /\ dir \in {Packs!None}
                 \cup [there : {TRUE}, file : {Packs!Pack(1), Packs!Pack(Packs!Other)}, mark : {0}, sound : {TRUE}]
                 \cup [there : {TRUE}, file : {Packs!Pack(1)}, mark : {1}, sound : {TRUE}]
  BY DEF StorageInit, Packs!Init
<1>2. 1 \in 1..RevMax /\ 0 \in 0..RevMax /\ 1 \in 0..RevMax /\ 1 \in 0..Packs!Other /\ Packs!Other \in 0..Packs!Other
  BY StepNames, StorageAssumption
<1>3. Packs!Pack(1) \in [Files -> 0..Packs!Other] /\ Packs!Pack(Packs!Other) \in [Files -> 0..Packs!Other]
  BY <1>2 DEF Packs!Pack
<1>4. dir \in Packs!Folders /\ (~dir.there => Gone(dir)) /\ Honest(dir)
  <2>1. CASE dir = Packs!None
    BY <2>1, NoFolder
  <2>2. CASE dir \in [there : {TRUE}, file : {Packs!Pack(1), Packs!Pack(Packs!Other)}, mark : {0}, sound : {TRUE}]
    BY <1>2, <1>3, <2>2 DEF Packs!Folders, Honest
  <2>3. CASE dir \in [there : {TRUE}, file : {Packs!Pack(1)}, mark : {1}, sound : {TRUE}]
    BY <1>2, <1>3, <2>3 DEF Packs!Folders, Honest, Packs!Holds
  <2> QED BY <1>1, <2>1, <2>2, <2>3
<1> QED BY <1>1, <1>2, <1>4, NoFolder, IdleJob DEF PacksInv, PacksOk, JobInv, MarkInv, CalmInv

LEMMA PacksStep == PacksInv /\ [StorageNext]_storageVars => PacksInv'
<1> SUFFICES ASSUME PacksInv, [StorageNext]_storageVars PROVE PacksInv'
  OBVIOUS
<1>1. CASE UNCHANGED packVars
  BY <1>1 DEF packVars, PacksInv, PacksOk, JobInv, MarkInv, CalmInv, Gone, Honest
<1>2. CASE Packs!Next
  <2>1. CASE Packs!Job
    BY <2>1, FetchStep, SweepAsideStep, MoveAsideStep, ExtractStep, JudgeStep, SweepDirStep, PutBackStep,
       RemoveFailsStep, HashStep, MarkStep, RemoveStep DEF Packs!Job
  <2> QED BY <1>2, <2>1, RequestsStep, HandStep, PowerCutStep DEF Packs!Next
<1>3. [Packs!Next \/ UNCHANGED packVars]_packVars
  BY DEF StorageNext, storageVars
<1> QED BY <1>1, <1>2, <1>3

\* web_server.c:3818 and README.md:1336: for any files of a theme, any number of
\* revisions, and changes by hand and power cuts between any two steps, a marked
\* folder is what its revision contains, and a failed installation leaves the folder
\* as it found it.
THEOREM ThemesAreWhole == StorageSpec => []ThemesWhole
<1>1. StorageInit => PacksInv
  BY PacksInit
<1>2. PacksInv /\ [StorageNext]_storageVars => PacksInv'
  BY PacksStep
<1>3. PacksInv => ThemesWhole
  BY DEF PacksInv, MarkInv, CalmInv, Honest, ThemesWhole, Packs!MarkedIsWhole, Packs!FailedInstallRestores
<1> QED BY <1>1, <1>2, <1>3, PTL DEF StorageSpec

-----------------------------------------------------------------------------
(* The settings one by one *)

\* A number's limits and what it is set to beyond them.
Ordered(f) ==
  /\ f.lo \in Int /\ f.low \in f.lo..f.hi /\ f.hi \in Int /\ f.high \in f.lo..f.hi /\ f.dflt \in f.lo..f.hi
  /\ 0 <= f.lo /\ f.width \in {Single!Byte, Single!Word, Single!Long} /\ f.hi < f.width

LEMMA NumbersOrdered == \A k \in DOMAIN Single!Number : Ordered(Single!Number[k])
BY SMTT(60) DEF Single!Number, Single!UpTo, Single!Clamped, Single!AtLeast, Single!Field, Ordered, Single!Byte,
   Single!Word, Single!Long

\* The three ways a list's entry stays in its range, and the one that has none.
Sized(l) ==
  /\ l.lo \in Int /\ l.hi \in Int /\ l.lo <= l.hi /\ l.hi < Single!Junk
  /\ l.dflt \in l.lo..l.hi /\ l.need \in 0..2
  /\ l.odd \in {"clamp", "wrap", "keep", "any"}
  /\ l.odd = "wrap" => 0 <= l.lo /\ l.hi < 256

LEMMA ListsSized == \A k \in DOMAIN Single!Lists : Sized(Single!Lists[k])
BY SMTT(60) DEF Single!Lists, Single!Tubes, Sized, Single!Junk

\* The default and what an unknown name becomes are known, and no known name is
\* read for another.
Spelled(n) ==
  /\ n.dflt \in n.known /\ n.other \in n.known \cup {"keep"}
  /\ \A a \in n.known : a \notin n.alias

LEMMA NamesSpelled ==
  /\ \A k \in DOMAIN Single!Names : Spelled(Single!Names[k])
  /\ Single!Names["update_repo"].dflt = ""
<1> USE DEF Single!Names, Single!Name, Single!Free, Spelled
<1>1. Spelled(Single!Names["theme"]) /\ Spelled(Single!Names["clock_tube5"])
  OBVIOUS
<1>2. Spelled(Single!Names["custom_bg"]) /\ Spelled(Single!Names["instagram_method"])
  OBVIOUS
<1>3. Spelled(Single!Names["burnin_auto_interval"]) /\ Spelled(Single!Names["burnin_auto_mode"])
  OBVIOUS
<1>4. Spelled(Single!Names["backlight_mode"]) /\ Spelled(Single!Names["backlight_onoff"])
  OBVIOUS
<1>5. Spelled(Single!Names["temperature_format"])
  OBVIOUS
<1>6. Spelled(Single!Names["update_repo"]) /\ Spelled(Single!Names["password"])
  OBVIOUS
<1>7. Single!Names["update_repo"].dflt = ""
  OBVIOUS
<1>8. DOMAIN Single!Names =
        {"theme", "clock_tube5", "custom_bg", "instagram_method", "burnin_auto_interval", "burnin_auto_mode",
         "backlight_mode", "backlight_onoff", "temperature_format", "update_repo", "password"}
  OBVIOUS
<1> HIDE DEF Single!Names, Single!Name, Single!Free, Spelled
<1> QED BY <1>1, <1>2, <1>3, <1>4, <1>5, <1>6, <1>7, <1>8

\* No setting is of two kinds.
LEMMA TablesApart ==
  /\ \A k \in Single!Together : k \notin DOMAIN Single!Number /\ k \notin DOMAIN Single!Masked
                                /\ k \notin DOMAIN Single!Lists /\ k \notin DOMAIN Single!Names
  /\ \A k \in DOMAIN Single!Masked : k \notin DOMAIN Single!Number /\ k \notin DOMAIN Single!Lists
                                     /\ k \notin DOMAIN Single!Names
  /\ \A k \in DOMAIN Single!Lists : k \notin DOMAIN Single!Number /\ k \notin DOMAIN Single!Names
  /\ \A k \in DOMAIN Single!Names : k \notin DOMAIN Single!Number
  /\ \A k \in DOMAIN Single!Number : k \notin DOMAIN Single!Names
<1> SUFFICES
      /\ \A k \in DOMAIN Single!Number : k \notin Single!Together /\ k \notin DOMAIN Single!Masked
                                        /\ k \notin DOMAIN Single!Lists /\ k \notin DOMAIN Single!Names
      /\ \A k \in DOMAIN Single!Lists : k \notin Single!Together /\ k \notin DOMAIN Single!Masked
                                        /\ k \notin DOMAIN Single!Names
      /\ \A k \in DOMAIN Single!Names : k \notin Single!Together /\ k \notin DOMAIN Single!Masked
      /\ \A k \in DOMAIN Single!Masked : k \notin Single!Together
  OBVIOUS
<1>1. \A k \in DOMAIN Single!Number : k \notin Single!Together /\ k \notin DOMAIN Single!Masked
  BY SMTT(60) DEF Single!Number, Single!Together, Single!Masked
<1>2. \A k \in DOMAIN Single!Number : k \notin DOMAIN Single!Lists /\ k \notin DOMAIN Single!Names
  BY SMTT(60) DEF Single!Number, Single!Lists, Single!Names
<1>3. \A k \in DOMAIN Single!Lists : k \notin Single!Together /\ k \notin DOMAIN Single!Masked
                                        /\ k \notin DOMAIN Single!Names
  BY SMTT(60) DEF Single!Lists, Single!Together, Single!Masked, Single!Names
<1>4. /\ \A k \in DOMAIN Single!Names : k \notin Single!Together /\ k \notin DOMAIN Single!Masked
      /\ \A k \in DOMAIN Single!Masked : k \notin Single!Together
  BY SMTT(60) DEF Single!Names, Single!Together, Single!Masked
<1> QED BY <1>1, <1>2, <1>3, <1>4

\* Which of the readers, printers and defaults is a group's.
LEMMA ReadIs ==
  ASSUME NEW old, NEW p
  PROVE  /\ group \in DOMAIN Single!Number => Single!Read(old, p) = Single!ReadNumber(group, old, p)
         /\ group \in DOMAIN Single!Masked => Single!Read(old, p) = Single!ReadMask(group, old, p)
         /\ group \in DOMAIN Single!Lists => Single!Read(old, p) = Single!ReadList(group, old, p)
         /\ group \in DOMAIN Single!Names => Single!Read(old, p) = Single!ReadName(group, old, p)
         /\ group = "modes" => Single!Read(old, p) = Single!ReadModes(old, p)
         /\ group = "panels" => Single!Read(old, p) = Single!ReadPanels(old, p)
         /\ group = "shadows" => Single!Read(old, p) = Single!ReadShadows(old, p)
         /\ group = "zone" => Single!Read(old, p) = Single!ReadZone(old, p)
         /\ group = "names" => Single!Read(old, p) = Single!ReadNames(p)
BY TablesApart DEF Single!Read, Single!Together

LEMMA PrintedIs ==
  ASSUME NEW r
  PROVE  /\ group \in DOMAIN Single!Number \cup DOMAIN Single!Masked => Single!Printed(r) = <<r>>
         /\ group \in DOMAIN Single!Lists => Single!Printed(r) = [list |-> TRUE, of |-> r]
         /\ group \in DOMAIN Single!Names => Single!Printed(r) = Single!PrintedName(group, r)
         /\ group = "modes" => Single!Printed(r) = Single!PrintedModes(r)
         /\ group = "panels" => Single!Printed(r) = Single!PrintedPanels(r)
         /\ group = "shadows" => Single!Printed(r) = r
         /\ group = "zone" => Single!Printed(r) = [timezone |-> r]
         /\ group = "names" => Single!Printed(r) = r
BY TablesApart DEF Single!Printed, Single!Together, Single!PrintedNumber, Single!PrintedList,
   Single!PrintedShadows, Single!PrintedZone, Single!PrintedNames

LEMMA DefaultIs ==
  /\ group \in DOMAIN Single!Number => Single!Default = Single!Number[group].dflt
  /\ group \in DOMAIN Single!Masked => Single!Default = Single!Masked[group]
  /\ group \in DOMAIN Single!Lists => Single!Default = [i \in 1..2 |-> Single!Lists[group].dflt]
  /\ group \in DOMAIN Single!Names => Single!Default = Single!Names[group].dflt
  /\ group = "modes" => Single!Default = Single!DefaultModes
  /\ group = "panels" => Single!Default = Single!DefaultPanels
  /\ group = "shadows" => Single!Default = Single!DefaultShadows
  /\ group = "zone" => Single!Default = <<0, 0>>
  /\ group = "names" => Single!Default = <<>>
BY TablesApart DEF Single!Default, Single!Together, Single!DefaultNumber, Single!DefaultList, Single!DefaultName

-----------------------------------------------------------------------------
\* What a group's settings can be, and what a request may say of them.
NumberOk(k, x) == x \in Single!Number[k].lo..Single!Number[k].hi
MaskOk(k, x) == x \in 0..63 /\ (x = 0 => Single!Masked[k] = 0)
EntryOk(l, v) == v \in Int /\ v # Single!Junk /\ (l.odd # "any" => v \in l.lo..l.hi)
ListOk(k, x) == x \in [1..2 -> Int] /\ \A i \in 1..2 : EntryOk(Single!Lists[k], x[i])
NameOk(k, x) == x \in Single!Names[k].known
ModesOk(x) ==
  /\ x = [mode |-> x.mode, enabled |-> x.enabled, rotation |-> x.rotation, social |-> x.social,
          weather |-> x.weather, mic |-> x.mic]
  /\ 0 \in x.enabled \/ 4 \in x.enabled
  /\ x.mic = (7 \in x.enabled)
  /\ x.weather => 6 \in x.enabled
PanelsOk(x) ==
  /\ x = [six |-> x.six, five |-> x.five, wx |-> x.wx, dual |-> x.dual]
  /\ x.six \subseteq Single!Panels /\ x.five \subseteq Single!Panels /\ x.wx \subseteq Single!Pages
  /\ x.six # {} /\ x.wx # {} /\ (x.dual => x.five # {})
ShadowsOk(x) ==
  x = [shadow |-> x.shadow, glyph |-> x.glyph, color |-> x.color, glyphColor |-> x.glyphColor]
NamesOk(x) == \/ x = <<>>
              \/ \E a : a # "" /\ x = <<a>>
              \/ \E a, b : a # "" /\ b # "" /\ x = <<a, b>>

FieldOk(x) ==
  /\ group \in DOMAIN Single!Number => NumberOk(group, x)
  /\ group \in DOMAIN Single!Masked => MaskOk(group, x)
  /\ group \in DOMAIN Single!Lists => ListOk(group, x)
  /\ group \in DOMAIN Single!Names => NameOk(group, x)
  /\ group = "modes" => ModesOk(x)
  /\ group = "panels" => PanelsOk(x)
  /\ group = "shadows" => ShadowsOk(x)
  /\ group = "zone" => x # <<>>
  /\ group = "names" => NamesOk(x)

Said(p) ==
  /\ group \in DOMAIN Single!Number \cup DOMAIN Single!Masked => p = <<>> \/ \E v \in Int : p = <<v>>
  /\ group \in DOMAIN Single!Lists => p.list \in BOOLEAN /\ p.of \in Seq(Int)
  /\ group = "panels" => /\ "six" \in DOMAIN p => DOMAIN p.six \subseteq Single!Panels
                         /\ "five" \in DOMAIN p => DOMAIN p.five \subseteq Single!Panels
                         /\ "wx" \in DOMAIN p => DOMAIN p.wx \subseteq Single!Pages

LEMMA NarrowType == \A w \in {Single!Byte, Single!Word, Single!Long}, v \in Int : Single!Narrow(w, v) \in Nat
BY DEF Single!Narrow, Single!Byte, Single!Word, Single!Long

\* Each kind: what is read is in order, and what was in order is read back.
LEMMA NumberRead ==
  ASSUME NEW k \in DOMAIN Single!Number, NEW old, NumberOk(k, old), NEW p, p = <<>> \/ \E v \in Int : p = <<v>>
  PROVE  NumberOk(k, Single!ReadNumber(k, old, p))
<1> DEFINE f == Single!Number[k]
<1>1. Ordered(f)
  BY NumbersOrdered
<1>2. \A v \in Int : Single!Corrected(f, v) \in f.lo..f.hi
  BY <1>1 DEF Ordered, Single!Corrected
<1>3. old \in Int
  BY <1>1 DEF NumberOk, Ordered
<1> HIDE DEF f
<1>4. p # <<>> => Single!Narrow(f.width, p[1]) \in Int
  <2>1. p # <<>> => p[1] \in Int
    OBVIOUS
  <2>2. f.width \in {Single!Byte, Single!Word, Single!Long}
    BY <1>1 DEF Ordered
  <2>3. \A n \in Nat : n \in Int
    OBVIOUS
  <2> QED BY <2>1, <2>2, <2>3, NarrowType
<1>5. \E v \in Int : Single!ReadNumber(k, old, p) = Single!Corrected(f, v)
  BY <1>3, <1>4 DEF Single!ReadNumber, f
<1> QED BY <1>2, <1>5 DEF NumberOk, f

LEMMA NumberBack ==
  ASSUME NEW k \in DOMAIN Single!Number, NEW old, NEW x, NumberOk(k, x), k = "sub_poll_interval_min" => x >= 5
  PROVE  Single!ReadNumber(k, old, <<x>>) = x
<1> DEFINE f == Single!Number[k]
<1>1. Ordered(f) /\ x \in f.lo..f.hi
  BY NumbersOrdered DEF NumberOk
<1>2. Single!Corrected(f, x) = x /\ x \in Int
  BY <1>1 DEF Ordered, Single!Corrected
<1>3. Single!Narrow(f.width, x) = x
  BY <1>1 DEF Ordered, Single!Narrow, Single!Byte, Single!Word, Single!Long
<1>4. <<x>> # <<>> /\ <<x>>[1] = x /\ ~Single!Ignored(k, x)
  BY <1>2 DEF Single!Ignored
<1> QED BY <1>2, <1>3, <1>4 DEF Single!ReadNumber

LEMMA MaskRead ==
  ASSUME NEW k \in DOMAIN Single!Masked, NEW old, MaskOk(k, old), NEW p, p = <<>> \/ \E v \in Int : p = <<v>>
  PROVE  MaskOk(k, Single!ReadMask(k, old, p))
<1>1. Single!Masked[k] \in {0, 63}
  BY DEF Single!Masked
<1>2. \A v \in Int : v % 64 \in 0..63
  OBVIOUS
<1>3. \E v \in Int : Single!ReadMask(k, old, p) = IF v % 64 = 0 THEN Single!Masked[k] ELSE v % 64
  <2>1. p # <<>> => p[1] \in Int
    OBVIOUS
  <2>2. old \in Int /\ (p # <<>> => Single!Narrow(Single!Byte, p[1]) \in Int)
    BY <2>1, NarrowType DEF MaskOk
  <2> QED BY <2>2 DEF Single!ReadMask
<1> QED BY <1>1, <1>2, <1>3 DEF MaskOk

LEMMA MaskBack ==
  ASSUME NEW k \in DOMAIN Single!Masked, NEW old, NEW x, MaskOk(k, x)
  PROVE  Single!ReadMask(k, old, <<x>>) = x
<1>1. <<x>> # <<>> /\ <<x>>[1] = x
  OBVIOUS
<1>2. Single!Narrow(Single!Byte, x) % 64 = x
  BY DEF MaskOk, Single!Narrow, Single!Byte, Single!Long
<1> QED BY <1>1, <1>2 DEF Single!ReadMask, MaskOk

LEMMA EntryRead ==
  ASSUME NEW l, Sized(l), NEW v \in Int, NEW old, EntryOk(l, old)
  PROVE  EntryOk(l, Single!Entry(l, v, old))
<1> USE DEF Sized, EntryOk, Single!Junk
<1>1. \A w \in Int : Single!Bounded(l, w) \in l.lo..l.hi
  BY DEF Single!Bounded
<1>2. v % 256 \in Int
  OBVIOUS
<1>3. CASE v = Single!Junk
  BY <1>3 DEF Single!Entry
<1>4. CASE v # Single!Junk /\ l.odd = "clamp"
  BY <1>1, <1>4 DEF Single!Entry
<1>5. CASE v # Single!Junk /\ l.odd = "wrap"
  BY <1>1, <1>2, <1>5 DEF Single!Entry
<1>6. CASE v # Single!Junk /\ l.odd = "keep"
  BY <1>6 DEF Single!Entry
<1>7. CASE v # Single!Junk /\ l.odd = "any"
  BY <1>7 DEF Single!Entry
<1> QED BY <1>3, <1>4, <1>5, <1>6, <1>7

LEMMA EntryBack ==
  ASSUME NEW l, Sized(l), NEW v, EntryOk(l, v), NEW old
  PROVE  Single!Entry(l, v, old) = v
<1> USE DEF Sized, EntryOk, Single!Junk
<1>1. CASE l.odd = "clamp"
  BY <1>1 DEF Single!Entry, Single!Bounded
<1>2. CASE l.odd = "wrap"
  <2>1. v % 256 = v
    BY <1>2
  <2> QED BY <1>2, <2>1 DEF Single!Entry, Single!Bounded
<1>3. CASE l.odd = "keep"
  BY <1>3 DEF Single!Entry
<1>4. CASE l.odd = "any"
  BY <1>4 DEF Single!Entry
<1> QED BY <1>1, <1>2, <1>3, <1>4

LEMMA ListRead ==
  ASSUME NEW k \in DOMAIN Single!Lists, NEW old, ListOk(k, old), NEW p, p.list \in BOOLEAN, p.of \in Seq(Int)
  PROVE  ListOk(k, Single!ReadList(k, old, p))
<1> DEFINE l == Single!Lists[k]
           r == Single!ReadList(k, old, p)
<1>1. Sized(l) /\ old \in [1..2 -> Int] /\ \A i \in 1..2 : EntryOk(l, old[i])
  BY ListsSized DEF ListOk
<1>2. \A i \in 1..Len(p.of) : p.of[i] \in Int
  OBVIOUS
<1>3. p.of # <<>> => p.of[1] \in Int
  BY <1>2
<1>4. \A v \in Int, i \in 1..2 : EntryOk(l, Single!Entry(l, v, old[i]))
  BY <1>1, EntryRead
<1> HIDE DEF l, r
<1>5. CASE r = old
  BY <1>1, <1>5 DEF ListOk, l, r
<1>6. CASE p.list /\ r # old
  <2>1. r = [i \in 1..2 |-> IF i <= Len(p.of) THEN Single!Entry(l, p.of[i], old[i]) ELSE old[i]]
    BY <1>6 DEF Single!ReadList, l, r
  <2>2. \A i \in 1..2 : EntryOk(l, r[i])
    BY <1>1, <1>2, <1>4, <2>1
  <2>3. r \in [1..2 -> Int]
    BY <2>1, <2>2 DEF EntryOk
  <2> QED BY <2>2, <2>3 DEF ListOk, l, r
<1>7. CASE ~p.list
  <2>1. r = [i \in 1..2 |-> IF i \in l.scalar /\ p.of # <<>> THEN Single!Entry(l, p.of[1], old[i]) ELSE old[i]]
    BY <1>7 DEF Single!ReadList, l, r
  <2>2. \A i \in 1..2 : EntryOk(l, r[i])
    BY <1>1, <1>3, <1>4, <2>1
  <2>3. r \in [1..2 -> Int]
    BY <2>1, <2>2 DEF EntryOk
  <2> QED BY <2>2, <2>3 DEF ListOk, l, r
<1> QED BY <1>5, <1>6, <1>7

LEMMA ListBack ==
  ASSUME NEW k \in DOMAIN Single!Lists, NEW old, NEW x, ListOk(k, x)
  PROVE  Single!ReadList(k, old, [list |-> TRUE, of |-> x]) = x
<1> DEFINE l == Single!Lists[k]
<1>1. Sized(l) /\ x \in [1..2 -> Int] /\ \A i \in 1..2 : EntryOk(l, x[i])
  BY ListsSized DEF ListOk
<1>2. x \in Seq(Int) /\ Len(x) = 2
  <2>1. x \in Seq(Int)
    BY <1>1, SeqDef
  <2> QED BY <1>1, <2>1, LenProperties
<1>3. \A i \in 1..2 : Single!Entry(l, x[i], old[i]) = x[i]
  BY <1>1, EntryBack
<1>4. Single!ReadList(k, old, [list |-> TRUE, of |-> x])
        = [i \in 1..2 |-> IF i <= Len(x) THEN Single!Entry(l, x[i], old[i]) ELSE old[i]]
  <2>1. ~(Len(x) < l.need)
    BY <1>1, <1>2 DEF Sized
  <2>2. [list |-> TRUE, of |-> x].list /\ [list |-> TRUE, of |-> x].of = x
    OBVIOUS
  <2> QED BY <2>1, <2>2 DEF Single!ReadList
<1> HIDE DEF l
<1> QED BY <1>1, <1>2, <1>3, <1>4

LEMMA NameRead ==
  ASSUME NEW k \in DOMAIN Single!Names, NEW old, NameOk(k, old), NEW p
  PROVE  NameOk(k, Single!ReadName(k, old, p))
<1>1. Spelled(Single!Names[k])
  BY NamesSpelled
<1>2. \A o, s : NameOk(k, o) => NameOk(k, Single!Named(k, o, s))
  BY <1>1 DEF NameOk, Spelled, Single!Named
<1> QED BY <1>2 DEF Single!ReadName

LEMMA NameBack ==
  ASSUME NEW k \in DOMAIN Single!Names, NEW x, NameOk(k, x)
  PROVE  Single!ReadName(k, Single!Names[k].dflt, Single!PrintedName(k, x)) = x
<1> DEFINE d == Single!Names[k].dflt
<1>1. Spelled(Single!Names[k]) /\ NameOk(k, d)
  BY NamesSpelled DEF NameOk, Spelled
<1>2. \A o, s : NameOk(k, s) => Single!Named(k, o, s) = s
  BY <1>1 DEF NameOk, Spelled, Single!Named
<1>3. CASE k = "update_repo" /\ x = ""
  <2>1. d = x
    BY <1>3, NamesSpelled
  <2>2. Single!PrintedName(k, x) = <<>> /\ \A n : n \notin DOMAIN <<>>
    <3>1. \A n : n \notin DOMAIN <<>>
      OBVIOUS
    <3> QED BY <1>3, <3>1, Zenon DEF Single!PrintedName
  <2> QED BY <1>1, <1>2, <2>1, <2>2 DEF Single!ReadName, Single!Given
<1>4. CASE ~(k = "update_repo" /\ x = "")
  <2>1. Single!PrintedName(k, x) = [name |-> x]
    BY <1>4 DEF Single!PrintedName
  <2> QED BY <1>1, <1>2, <2>1 DEF Single!ReadName, Single!Given
<1> QED BY <1>3, <1>4

LEMMA ModesRead ==
  ASSUME NEW old, NEW p
  PROVE  ModesOk(Single!ReadModes(old, p))
<1> DEFINE on == Single!TimeShown(Single!Given(p, "enabled", old.enabled))
           w == Single!Given(p, "weather", old.weather)
           r == Single!ReadModes(old, p)
<1>1. 0 \in on \/ 4 \in on
  BY DEF Single!TimeShown
<1>2. /\ r = [mode |-> r.mode, enabled |-> r.enabled, rotation |-> r.rotation, social |-> r.social,
               weather |-> r.weather, mic |-> r.mic]
      /\ r.enabled = IF w THEN on \cup {6} ELSE on
      /\ r.weather = w /\ r.mic = (7 \in on)
  BY DEF Single!ReadModes
<1> HIDE DEF on, w, r
<1>3. 7 \in on <=> 7 \in r.enabled
  BY <1>2
<1> QED BY <1>1, <1>2, <1>3 DEF ModesOk, r

LEMMA ModesBack ==
  ASSUME NEW old, NEW x, ModesOk(x), x.mode \in DOMAIN Single!ModeName
  PROVE  Single!ReadModes(old, Single!PrintedModes(x)) = x
<1> DEFINE p == Single!PrintedModes(x)
<1>1. p = [enabled |-> x.enabled, rotation |-> x.rotation, social |-> x.social, weather |-> x.weather,
           app |-> Single!ModeName[x.mode]]
  BY DEF Single!PrintedModes
<1>2. \A m \in DOMAIN Single!ModeName : /\ Single!ModeName[m] \in DOMAIN Single!AppNames
                                         /\ Single!AppNames[Single!ModeName[m]] = m
  BY DEF Single!ModeName, Single!AppNames, Single!Modes
<1>3. Single!TimeShown(x.enabled) = x.enabled
  BY DEF Single!TimeShown, ModesOk
<1>4. x.weather => x.enabled \cup {6} = x.enabled
  BY DEF ModesOk
<1> HIDE DEF p
<1>5. /\ \A o : Single!Given(p, "enabled", o) = x.enabled /\ Single!Given(p, "rotation", o) = x.rotation
      /\ \A o : Single!Given(p, "social", o) = x.social /\ Single!Given(p, "weather", o) = x.weather
      /\ \A o : Single!Given(p, "app", o) = Single!ModeName[x.mode]
  BY <1>1 DEF Single!Given
<1>6. \A o : Single!Given(Single!AppNames, Single!ModeName[x.mode], o) = x.mode
  BY <1>2 DEF Single!Given
<1> QED BY <1>3, <1>4, <1>5, <1>6 DEF Single!ReadModes, ModesOk, p

LEMMA PanelsRead ==
  ASSUME NEW old, PanelsOk(old), NEW p,
         "six" \in DOMAIN p => DOMAIN p.six \subseteq Single!Panels,
         "five" \in DOMAIN p => DOMAIN p.five \subseteq Single!Panels,
         "wx" \in DOMAIN p => DOMAIN p.wx \subseteq Single!Pages
  PROVE  PanelsOk(Single!ReadPanels(old, p))
<1>0. /\ DOMAIN Single!Given(p, "six", <<>>) \subseteq Single!Panels
      /\ DOMAIN Single!Given(p, "five", <<>>) \subseteq Single!Panels
      /\ DOMAIN Single!Given(p, "wx", <<>>) \subseteq Single!Pages
  <2>1. DOMAIN <<>> = {}
    OBVIOUS
  <2> QED BY <2>1 DEF Single!Given
<1>1. \A S, o, f : o \subseteq S /\ DOMAIN f \subseteq S => Single!Switched(o, f) \subseteq S
  BY DEF Single!Switched
<1>2. \A S, o, e : o \subseteq S /\ e \in S => Single!OrElse(o, e) \subseteq S /\ Single!OrElse(o, e) # {}
  BY DEF Single!OrElse
<1>3. "weekdate" \in Single!Panels /\ "ht" \in Single!Panels /\ 0 \in Single!Pages
  BY DEF Single!Panels, Single!Pages
<1>4. /\ Single!Switched(old.six, Single!Given(p, "six", <<>>)) \subseteq Single!Panels
      /\ Single!Switched(old.five, Single!Given(p, "five", <<>>)) \subseteq Single!Panels
      /\ Single!Switched(old.wx, Single!Given(p, "wx", <<>>)) \subseteq Single!Pages
  BY <1>0, <1>1 DEF PanelsOk
<1> QED BY <1>2, <1>3, <1>4 DEF Single!ReadPanels, PanelsOk

LEMMA PanelsBack ==
  ASSUME NEW x, PanelsOk(x)
  PROVE  Single!ReadPanels(Single!DefaultPanels, Single!PrintedPanels(x)) = x
<1> DEFINE p == Single!PrintedPanels(x)
<1>1. /\ p.six = Single!AllFlags(Single!Panels, x.six) /\ p.five = Single!AllFlags(Single!Panels, x.five)
      /\ p.wx = Single!AllFlags(Single!Pages, x.wx) /\ p.dual = x.dual
      /\ DOMAIN p = {"six", "five", "wx", "dual"}
  BY DEF Single!PrintedPanels
<1>2. \A S, o, on : o \subseteq S /\ on \subseteq S => Single!Switched(o, Single!AllFlags(S, on)) = on
  BY DEF Single!Switched, Single!AllFlags, Single!Given
<1>3. /\ Single!DefaultPanels.six \subseteq Single!Panels /\ Single!DefaultPanels.five \subseteq Single!Panels
      /\ Single!DefaultPanels.wx \subseteq Single!Pages
  BY DEF Single!DefaultPanels, Single!Panels, Single!Pages
<1> HIDE DEF p
<1>4. /\ \A o : Single!Given(p, "six", o) = p.six /\ Single!Given(p, "five", o) = p.five
      /\ \A o : Single!Given(p, "wx", o) = p.wx /\ Single!Given(p, "dual", o) = p.dual
  BY <1>1 DEF Single!Given
<1>5. /\ Single!Switched(Single!DefaultPanels.six, p.six) = x.six
      /\ Single!Switched(Single!DefaultPanels.five, p.five) = x.five
      /\ Single!Switched(Single!DefaultPanels.wx, p.wx) = x.wx
  BY <1>1, <1>2, <1>3 DEF PanelsOk
<1> QED BY <1>1, <1>4, <1>5 DEF Single!ReadPanels, Single!OrElse, PanelsOk, p

LEMMA ShadowsRead ==
  ASSUME NEW old, NEW p
  PROVE  ShadowsOk(Single!ReadShadows(old, p))
BY DEF Single!ReadShadows, ShadowsOk

LEMMA ShadowsBack ==
  ASSUME NEW old, NEW x, ShadowsOk(x)
  PROVE  Single!ReadShadows(old, x) = x
<1>1. DOMAIN x = {"shadow", "glyph", "color", "glyphColor"}
  BY DEF ShadowsOk
<1> QED BY <1>1 DEF Single!ReadShadows, Single!Given, ShadowsOk

LEMMA ZoneRead ==
  ASSUME NEW old, old # <<>>, NEW p
  PROVE  Single!ReadZone(old, p) # <<>>
BY DEF Single!ReadZone, Single!Given, Single!FromLegacy

LEMMA ZoneBack ==
  ASSUME NEW old, NEW x, x # <<>>
  PROVE  Single!ReadZone(old, [timezone |-> x]) = x
BY DEF Single!ReadZone, Single!Given

LEMMA Pairs ==
  ASSUME NEW a, NEW b
  PROVE  /\ <<>> \o <<>> = <<>> /\ <<a>> \o <<>> = <<a>> /\ <<>> \o <<b>> = <<b>>
         /\ <<a>> \o <<b>> = <<a, b>>
<1>1. <<>> \in Seq({a, b}) /\ <<a>> \in Seq({a, b}) /\ <<b>> \in Seq({a, b}) /\ <<a, b>> \in Seq({a, b})
  OBVIOUS
<1>2. <<>> \o <<>> = <<>> /\ <<a>> \o <<>> = <<a>> /\ <<>> \o <<b>> = <<b>>
  BY <1>1, ConcatEmptySeq
<1>3. <<a>> \o <<b>> = <<a, b>>
  <2>1. /\ <<a>> \o <<b>> \in Seq({a, b}) /\ Len(<<a>> \o <<b>>) = 2
        /\ (<<a>> \o <<b>>)[1] = a /\ (<<a>> \o <<b>>)[2] = b
    <3>1. /\ <<a>> \o <<b>> \in Seq({a, b})
          /\ Len(<<a>> \o <<b>>) = Len(<<a>>) + Len(<<b>>)
          /\ \A i \in 1 .. Len(<<a>>) + Len(<<b>>) :
               (<<a>> \o <<b>>)[i] = IF i <= Len(<<a>>) THEN <<a>>[i] ELSE <<b>>[i - Len(<<a>>)]
      BY <1>1, ConcatProperties
    <3> QED BY <3>1
  <2>2. Len(<<a, b>>) = 2 /\ <<a, b>>[1] = a /\ <<a, b>>[2] = b
    OBVIOUS
  <2>3. \A i \in 1..2 : (<<a>> \o <<b>>)[i] = <<a, b>>[i]
    BY <2>1, <2>2
  <2> QED BY <1>1, <2>1, <2>2, <2>3, SeqEqual
<1> QED BY <1>2, <1>3

LEMMA NamesRead ==
  ASSUME NEW p
  PROVE  NamesOk(Single!ReadNames(p))
<1> DEFINE a == p[1]
           b == p[2]
<1>1. PICK s \in {<<>>, <<a>>} : s = (IF Len(p) < 1 THEN <<>> ELSE Single!Entered(p[1])) /\ (a = "" => s = <<>>)
  BY DEF Single!Entered
<1>2. PICK t \in {<<>>, <<b>>} : t = (IF Len(p) < 2 THEN <<>> ELSE Single!Entered(p[2])) /\ (b = "" => t = <<>>)
  BY DEF Single!Entered
<1>3. Single!ReadNames(p) = s \o t
  BY <1>1, <1>2, Zenon DEF Single!ReadNames
<1> HIDE DEF a, b
<1>4. <<>> \o <<>> = <<>> /\ <<a>> \o <<>> = <<a>> /\ <<>> \o <<b>> = <<b>> /\ <<a>> \o <<b>> = <<a, b>>
  BY Pairs
<1>5. <<a>> # <<>> /\ <<b>> # <<>>
  OBVIOUS
<1> QED BY <1>1, <1>2, <1>3, <1>4, <1>5 DEF NamesOk

LEMMA NamesBack ==
  ASSUME NEW x, NamesOk(x)
  PROVE  Single!ReadNames(x) = x
<1>1. CASE x = <<>>
  BY <1>1, Pairs DEF Single!ReadNames
<1>2. CASE \E a : a # "" /\ x = <<a>>
  <2>1. PICK a : a # "" /\ x = <<a>>
    BY <1>2
  <2>2. Len(x) = 1 /\ x[1] = a
    BY <2>1
  <2>3. Single!ReadNames(x) = <<a>> \o <<>>
    <3>1. ~(Len(x) < 1) /\ Len(x) < 2
      BY <2>2
    <3>2. Single!Entered(x[1]) = <<a>>
      BY <2>1, <2>2, Zenon DEF Single!Entered
    <3> QED BY <3>1, <3>2, Zenon DEF Single!ReadNames
  <2> QED BY <2>1, <2>3, Pairs
<1>3. CASE \E a, b : a # "" /\ b # "" /\ x = <<a, b>>
  <2>1. PICK a, b : a # "" /\ b # "" /\ x = <<a, b>>
    BY <1>3
  <2>2. Len(x) = 2 /\ x[1] = a /\ x[2] = b
    BY <2>1
  <2>3. Single!ReadNames(x) = <<a>> \o <<b>>
    <3>1. ~(Len(x) < 1) /\ ~(Len(x) < 2)
      BY <2>2
    <3>2. Single!Entered(x[1]) = <<a>> /\ Single!Entered(x[2]) = <<b>>
      BY <2>1, <2>2, Zenon DEF Single!Entered
    <3> QED BY <3>1, <3>2, Zenon DEF Single!ReadNames
  <2> QED BY <2>1, <2>3, Pairs
<1> QED BY <1>1, <1>2, <1>3 DEF NamesOk

\* Whatever a request or the file says, what is read is in order.
LEMMA ReadKeeps ==
  ASSUME group \in Single!Groups, NEW old, FieldOk(old), NEW p, Said(p)
  PROVE  FieldOk(Single!Read(old, p))
<1>1. CASE group \in DOMAIN Single!Number
  BY <1>1, ReadIs, NumberRead, TablesApart DEF FieldOk, Said, Single!Together
<1>2. CASE group \in DOMAIN Single!Masked
  BY <1>2, ReadIs, MaskRead, TablesApart DEF FieldOk, Said, Single!Together
<1>3. CASE group \in DOMAIN Single!Lists
  BY <1>3, ReadIs, ListRead, TablesApart DEF FieldOk, Said, Single!Together
<1>4. CASE group \in DOMAIN Single!Names
  BY <1>4, ReadIs, NameRead, TablesApart DEF FieldOk, Single!Together
<1>5. CASE group \in Single!Together
  <2>0. /\ group \notin DOMAIN Single!Number /\ group \notin DOMAIN Single!Masked
        /\ group \notin DOMAIN Single!Lists /\ group \notin DOMAIN Single!Names
    BY <1>5, TablesApart
  <2>1. CASE group = "modes"
    BY <2>0, <2>1, ReadIs, ModesRead DEF FieldOk
  <2>2. CASE group = "panels"
    BY <2>0, <2>2, ReadIs, PanelsRead DEF FieldOk, Said
  <2>3. CASE group = "shadows"
    BY <2>0, <2>3, ReadIs, ShadowsRead DEF FieldOk
  <2>4. CASE group = "zone"
    BY <2>0, <2>4, ReadIs, ZoneRead DEF FieldOk
  <2>5. CASE group = "names"
    BY <2>0, <2>5, ReadIs, NamesRead DEF FieldOk
  <2> QED BY <1>5, <2>1, <2>2, <2>3, <2>4, <2>5 DEF Single!Together
<1> QED BY <1>1, <1>2, <1>3, <1>4, <1>5 DEF Single!Groups

LEMMA DefaultOk ==
  ASSUME group \in Single!Groups
  PROVE  FieldOk(Single!Default)
<1>1. CASE group \in DOMAIN Single!Number
  BY <1>1, DefaultIs, NumbersOrdered, TablesApart DEF FieldOk, NumberOk, Ordered, Single!Together
<1>2. CASE group \in DOMAIN Single!Masked
  <2>1. \A k \in DOMAIN Single!Masked : Single!Masked[k] \in {0, 63}
    BY DEF Single!Masked
  <2> QED BY <1>2, <2>1, DefaultIs, TablesApart DEF FieldOk, MaskOk, Single!Together
<1>3. CASE group \in DOMAIN Single!Lists
  <2>1. Sized(Single!Lists[group])
    BY <1>3, ListsSized
  <2>2. ListOk(group, [i \in 1..2 |-> Single!Lists[group].dflt])
    BY <2>1 DEF ListOk, EntryOk, Sized, Single!Junk
  <2> QED BY <1>3, <2>2, DefaultIs, TablesApart DEF FieldOk, Single!Together
<1>4. CASE group \in DOMAIN Single!Names
  BY <1>4, DefaultIs, NamesSpelled, TablesApart DEF FieldOk, NameOk, Spelled, Single!Together
<1>5. CASE group \in Single!Together
  <2>0. /\ group \notin DOMAIN Single!Number /\ group \notin DOMAIN Single!Masked
        /\ group \notin DOMAIN Single!Lists /\ group \notin DOMAIN Single!Names
    BY <1>5, TablesApart
  <2>1. ModesOk(Single!DefaultModes)
    BY DEF ModesOk, Single!DefaultModes, Single!Modes
  <2>2. PanelsOk(Single!DefaultPanels)
    BY DEF PanelsOk, Single!DefaultPanels, Single!Panels, Single!Pages
  <2>3. ShadowsOk(Single!DefaultShadows)
    BY DEF ShadowsOk, Single!DefaultShadows
  <2>4. <<0, 0>> # <<>> /\ NamesOk(<<>>)
    BY DEF NamesOk
  <2> QED BY <2>0, <2>1, <2>2, <2>3, <2>4, DefaultIs DEF FieldOk
<1> QED BY <1>1, <1>2, <1>3, <1>4, <1>5 DEF Single!Groups

LEMMA PrintedSaid ==
  ASSUME NEW x, FieldOk(x)
  PROVE  Said(Single!Printed(x))
<1>1. ASSUME group \in DOMAIN Single!Number \cup DOMAIN Single!Masked
      PROVE  \E v \in Int : Single!Printed(x) = <<v>>
  <2>1. x \in Int
    <3>1. CASE group \in DOMAIN Single!Number
      <4>1. Ordered(Single!Number[group]) /\ NumberOk(group, x)
        BY <3>1, NumbersOrdered DEF FieldOk
      <4> QED BY <4>1 DEF NumberOk, Ordered
    <3>2. CASE group \in DOMAIN Single!Masked
      <4>1. MaskOk(group, x)
        BY <3>2 DEF FieldOk
      <4> QED BY <4>1 DEF MaskOk
    <3> QED BY <1>1, <3>1, <3>2
  <2> QED BY <1>1, <2>1, PrintedIs
<1>2. ASSUME group \in DOMAIN Single!Lists
      PROVE  Single!Printed(x).list \in BOOLEAN /\ Single!Printed(x).of \in Seq(Int)
  <2>1. x \in Seq(Int)
    BY <1>2, SeqDef DEF FieldOk, ListOk
  <2>2. Single!Printed(x) = [list |-> TRUE, of |-> x]
    BY <1>2, PrintedIs
  <2> QED BY <2>1, <2>2
<1>3. ASSUME group = "panels"
      PROVE  /\ DOMAIN Single!Printed(x).six \subseteq Single!Panels
             /\ DOMAIN Single!Printed(x).five \subseteq Single!Panels
             /\ DOMAIN Single!Printed(x).wx \subseteq Single!Pages
  <2>1. Single!Printed(x) = Single!PrintedPanels(x)
    BY <1>3, PrintedIs
  <2>2. /\ Single!PrintedPanels(x).six = Single!AllFlags(Single!Panels, x.six)
        /\ Single!PrintedPanels(x).five = Single!AllFlags(Single!Panels, x.five)
        /\ Single!PrintedPanels(x).wx = Single!AllFlags(Single!Pages, x.wx)
    BY DEF Single!PrintedPanels
  <2>3. \A S, on : DOMAIN Single!AllFlags(S, on) = S
    BY DEF Single!AllFlags
  <2> QED BY <2>1, <2>2, <2>3
<1> QED BY <1>1, <1>2, <1>3 DEF Said

LEMMA PayloadsAre ==
  /\ group \in DOMAIN Single!Number => Single!Payloads = Single!NumberPayloads(group)
  /\ group \in DOMAIN Single!Masked => Single!Payloads = Single!MaskPayloads
  /\ group \in DOMAIN Single!Lists => Single!Payloads = Single!ListPayloads(group)
  /\ group = "panels" => Single!Payloads = Single!PanelPayloads
BY TablesApart DEF Single!Payloads, Single!Together

LEMMA PayloadSaid ==
  ASSUME NEW p \in Single!Payloads
  PROVE  Said(p)
<1>1. ASSUME group \in DOMAIN Single!Number
      PROVE  p = <<>> \/ \E v \in Int : p = <<v>>
  <2>1. p \in {<<>>} \cup {<<v>> : v \in Single!Edges(group)}
    BY <1>1, PayloadsAre DEF Single!NumberPayloads
  <2>2. Single!Edges(group) \subseteq Int
    BY <1>1, NumbersOrdered DEF Single!Edges, Ordered, Single!Byte, Single!Word, Single!Long
  <2> QED BY <2>1, <2>2
<1>2. ASSUME group \in DOMAIN Single!Masked
      PROVE  p = <<>> \/ \E v \in Int : p = <<v>>
  <2>1. p \in {<<>>} \cup {<<v>> : v \in {-1, 0, 5, 63, 64, 256}}
    BY <1>2, PayloadsAre DEF Single!MaskPayloads
  <2> QED BY <2>1
<1>3. ASSUME group \in DOMAIN Single!Lists
      PROVE  p.list \in BOOLEAN /\ p.of \in Seq(Int)
  <2>1. p \in Single!ListPayloads(group)
    BY <1>3, PayloadsAre
  <2>2. Sized(Single!Lists[group])
    BY <1>3, ListsSized
  <2> DEFINE l == Single!Lists[group]
             vs == {l.lo - 1, l.lo, l.hi, l.hi + 1, 256, Single!Junk}
  <2>3. vs \subseteq Int
    BY <2>2 DEF Sized, Single!Junk
  <2>4. /\ p.list \in BOOLEAN
        /\ p.of \in {<<>>} \cup {<<v>> : v \in vs} \cup {<<v, w>> : v, w \in vs} \cup {<<v, w, v>> : v, w \in vs}
    BY <2>1 DEF Single!ListPayloads
  <2> HIDE DEF vs
  <2>5. ASSUME p.of \in {<<>>} \cup {<<v>> : v \in vs}
        PROVE  p.of \in Seq(Int)
    <3>1. p.of = <<>> \/ \E v \in vs : p.of = <<v>>
      BY <2>5
    <3>2. <<>> \in Seq(Int) /\ \A v \in Int : <<v>> \in Seq(Int)
      OBVIOUS
    <3>3. CASE p.of = <<>>
      BY <3>2, <3>3
    <3>4. ASSUME NEW v \in vs, p.of = <<v>> PROVE p.of \in Seq(Int)
      <4>1. <<v>> \in Seq(Int)
        BY <2>3, <3>2
      <4> QED BY <3>4, <4>1
    <3> QED BY <3>1, <3>3, <3>4
  <2>6. ASSUME p.of \in {<<v, w>> : v, w \in vs}
        PROVE  p.of \in Seq(Int)
    <3>1. PICK v \in vs, w \in vs : p.of = <<v, w>>
      BY <2>6
    <3>2. v \in Int /\ w \in Int
      BY <2>3
    <3>3. <<v, w>> \in Seq(Int)
      BY <3>2
    <3> QED BY <3>1, <3>3
  <2>7. ASSUME p.of \in {<<v, w, v>> : v, w \in vs}
        PROVE  p.of \in Seq(Int)
    <3>1. PICK v \in vs, w \in vs : p.of = <<v, w, v>>
      BY <2>7
    <3>2. v \in Int /\ w \in Int
      BY <2>3
    <3>3. <<v, w, v>> \in Seq(Int)
      BY <3>2
    <3> QED BY <3>1, <3>3
  <2>8. p.of \in Seq(Int)
    BY <2>4, <2>5, <2>6, <2>7
  <2> QED BY <2>4, <2>8
<1>4. ASSUME group = "panels"
      PROVE  /\ "six" \in DOMAIN p => DOMAIN p.six \subseteq Single!Panels
             /\ "five" \in DOMAIN p => DOMAIN p.five \subseteq Single!Panels
             /\ "wx" \in DOMAIN p => DOMAIN p.wx \subseteq Single!Pages
  <2>1. p \in Single!PanelPayloads
    BY <1>4, PayloadsAre
  <2>2. \A K, V : \A f \in Single!Partial(K, V) : DOMAIN f \subseteq K
    BY DEF Single!Partial
  <2> QED BY <2>1, <2>2 DEF Single!PanelPayloads
<1> QED BY <1>1, <1>2, <1>3, <1>4 DEF Said

\* What is printed is read back, but for the two exceptions.
LEMMA RoundTrip ==
  ASSUME group \in Single!Groups, NEW x, FieldOk(x),
         group = "modes" => x.mode \in DOMAIN Single!ModeName,
         group = "sub_poll_interval_min" => x >= 5
  PROVE  Single!Read(Single!Default, Single!Printed(x)) = x
<1>1. CASE group \in DOMAIN Single!Number
  <2>1. NumberOk(group, x) /\ Single!Printed(x) = <<x>>
    BY <1>1, PrintedIs DEF FieldOk
  <2> QED BY <1>1, <2>1, ReadIs, NumberBack
<1>2. CASE group \in DOMAIN Single!Masked
  <2>1. MaskOk(group, x) /\ Single!Printed(x) = <<x>>
    BY <1>2, PrintedIs DEF FieldOk
  <2> QED BY <1>2, <2>1, ReadIs, MaskBack
<1>3. CASE group \in DOMAIN Single!Lists
  <2>1. ListOk(group, x) /\ Single!Printed(x) = [list |-> TRUE, of |-> x]
    BY <1>3, PrintedIs DEF FieldOk
  <2> QED BY <1>3, <2>1, ReadIs, ListBack
<1>4. CASE group \in DOMAIN Single!Names
  <2>1. NameOk(group, x) /\ Single!Printed(x) = Single!PrintedName(group, x)
    BY <1>4, PrintedIs DEF FieldOk
  <2> QED BY <1>4, <2>1, ReadIs, DefaultIs, NameBack
<1>5. CASE group = "modes"
  BY <1>5, ReadIs, PrintedIs, ModesBack DEF FieldOk
<1>6. CASE group = "panels"
  BY <1>6, ReadIs, PrintedIs, DefaultIs, PanelsBack DEF FieldOk
<1>7. CASE group = "shadows"
  BY <1>7, ReadIs, PrintedIs, ShadowsBack DEF FieldOk
<1>8. CASE group = "zone"
  BY <1>8, ReadIs, PrintedIs, ZoneBack DEF FieldOk
<1>9. CASE group = "names"
  BY <1>9, ReadIs, PrintedIs, NamesBack DEF FieldOk
<1> QED BY <1>1, <1>2, <1>3, <1>4, <1>5, <1>6, <1>7, <1>8, <1>9 DEF Single!Groups, Single!Together

\* The three quarters of an hour east of Greenwich are the exception (README).
LEMMA LegacyZones ==
  \A q \in Single!Quarters \ (1..3), v \in {1, 3600} : Single!East(Single!FromLegacy(v * q)) = q * 900
<1>1. /\ \A q \in -48..56 \ (1..3) : Single!East(Single!FromLegacy(q)) = q * 900
      /\ \A q \in -48..56 \ (1..3) : Single!East(Single!FromLegacy(3600 * q)) = q * 900
  BY SMTT(60) DEF Single!East, Single!FromLegacy, Single!Trunc
<1> QED BY <1>1 DEF Single!Quarters

FieldsInv == group \in Single!Groups /\ FieldOk(setting) /\ FieldOk(kept)

LEMMA FieldsStep == FieldsInv /\ [StorageNext]_storageVars => FieldsInv'
<1> SUFFICES ASSUME FieldsInv, [StorageNext]_storageVars PROVE FieldsInv'
  OBVIOUS
<1>1. CASE UNCHANGED fieldVars
  BY <1>1 DEF fieldVars, FieldsInv, FieldOk
<1>2. CASE Single!Next
  <2>1. CASE Single!Post
    <3>1. PICK p \in Single!Payloads : setting' = Single!Read(setting, p)
      BY <2>1 DEF Single!Post
    <3>2. FieldOk(setting') /\ kept' = setting' /\ group' = group
      BY <2>1, <3>1, PayloadSaid, ReadKeeps DEF Single!Post, FieldsInv
    <3> QED BY <3>2 DEF FieldsInv, FieldOk
  <2>2. CASE Single!Touch \/ Single!Advance
    <3>1. group = "modes" /\ UNCHANGED <<group, kept>>
      BY <2>2 DEF Single!Touch, Single!Advance
    <3>2. \E m : setting' = [setting EXCEPT !.mode = m]
      BY <2>2 DEF Single!Touch, Single!Advance, Single!Touched, Single!Advanced
    <3>3. ModesOk(setting)
      BY <3>1 DEF FieldsInv, FieldOk
    <3>4. ModesOk(setting')
      BY <3>2, <3>3 DEF ModesOk
    <3>5. FieldOk(setting')
      BY <3>1, <3>4, TablesApart DEF FieldOk, Single!Together
    <3> QED BY <3>1, <3>5 DEF FieldsInv, FieldOk
  <2>3. CASE Single!Boot
    <3>1. setting' = Single!Read(Single!Default, Single!Printed(kept)) /\ UNCHANGED <<group, kept>>
      BY <2>3 DEF Single!Boot
    <3>2. FieldOk(setting')
      BY <3>1, DefaultOk, PrintedSaid, ReadKeeps DEF FieldsInv
    <3> QED BY <3>1, <3>2 DEF FieldsInv, FieldOk
  <2>4. CASE Single!Reset
    <3>1. setting' = Single!Default /\ kept' = Single!Default /\ group' = group
      BY <2>4 DEF Single!Reset
    <3>2. FieldOk(setting')
      BY <3>1, DefaultOk DEF FieldsInv
    <3> QED BY <3>1, <3>2 DEF FieldsInv, FieldOk
  <2> QED BY <1>2, <2>1, <2>2, <2>3, <2>4 DEF Single!Next
<1>3. [Single!Next \/ UNCHANGED fieldVars]_fieldVars
  BY DEF StorageNext, storageVars
<1> QED BY <1>1, <1>2, <1>3

LEMMA FieldsInit == StorageInit => FieldsInv
<1> SUFFICES ASSUME StorageInit PROVE FieldsInv
  OBVIOUS
<1>1. group \in Single!Groups /\ setting = Single!Default /\ kept = Single!Default
  BY DEF StorageInit, Single!Init
<1> QED BY <1>1, DefaultOk DEF FieldsInv

\* config_mgr.c: after a boot the clock has the settings it had when it saved them,
\* for every setting and whatever requests, corrections, touches and boots came
\* before, but for a removed mode and a poll interval below its limit.
THEOREM SettingsReadBack == StorageSpec => []ReadsBack
<1>1. FieldsInv => ReadsBack
  <2>1. ASSUME FieldsInv, group = "sub_poll_interval_min" PROVE setting \in Int
    <3>1. group \in DOMAIN Single!Number
      BY <2>1 DEF Single!Number
    <3>2. NumberOk(group, setting) /\ Ordered(Single!Number[group])
      BY <2>1, <3>1, NumbersOrdered DEF FieldsInv, FieldOk
    <3> QED BY <3>2 DEF NumberOk, Ordered
  <2>2. \A n \in Int : n < 5 \/ n >= 5
    OBVIOUS
  <2> QED BY <2>1, <2>2, RoundTrip DEF FieldsInv, ReadsBack, Single!ReadsBack
<1> QED BY FieldsInit, FieldsStep, <1>1, PTL DEF StorageSpec

\* config_mgr.c:806, 861, 1065-1081, 649: the modes, pages and panels that must stay on
\* do, the microphone and the weather mode follow what needs them, whatever is
\* requested in whatever order, and a legacy time zone keeps its offset.
THEOREM SettingsFitTogether == StorageSpec => []SettingsFit
<1>1. FieldsInv => SettingsFit
  <2> SUFFICES ASSUME FieldsInv PROVE Single!SettingsFit
    BY DEF SettingsFit
  <2>1. group = "modes" => ModesOk(setting)
    BY DEF FieldsInv, FieldOk
  <2>2. group = "panels" => PanelsOk(setting)
    BY DEF FieldsInv, FieldOk
  <2> QED BY <2>1, <2>2, LegacyZones DEF Single!SettingsFit, ModesOk, PanelsOk
<1> QED BY FieldsInit, FieldsStep, <1>1, PTL DEF StorageSpec
=============================================================================
