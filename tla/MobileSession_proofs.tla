------------------------ MODULE MobileSession_proofs ------------------------
(***************************************************************************)
(* Proofs about MobileSession for any accounts, any size of the cache, and *)
(* any number of sessions, requests, launches and refusals of the disk.    *)
(***************************************************************************)
EXTENDS MobileSessionProperties, TLAPS

-----------------------------------------------------------------------------
(* The cache *)

CacheOK(entries) ==
    /\ entries \in Seq(Entries)
    /\ Len(entries) <= MAX_CACHE_ENTRIES
    /\ UniqueKeys(entries)

(* Every entry of `some` is one of `all`. *)
Among(some, all) == \A j \in DOMAIN some : \E i \in DOMAIN all : some[j] = all[i]

(* What is left of a sequence when one element is removed. *)
LEMMA RemoveAtSeq ==
    ASSUME NEW S, NEW s \in Seq(S), NEW i \in DOMAIN s
    PROVE  /\ RemoveAt(s, i) \in Seq(S)
           /\ Len(RemoveAt(s, i)) = Len(s) - 1
           /\ \A j \in DOMAIN RemoveAt(s, i) :
                 RemoveAt(s, i)[j] = IF j < i THEN s[j] ELSE s[j + 1]
<1> DEFINE a == SubSeq(s, 1, i - 1)
           b == SubSeq(s, i + 1, Len(s))
<1>1. a \in Seq(S) /\ Len(a) = i - 1 /\ \A j \in 1..(i - 1) : a[j] = s[j]
  OBVIOUS
<1>2. b \in Seq(S) /\ Len(b) = Len(s) - i /\ \A j \in 1..(Len(s) - i) : b[j] = s[i + j]
  OBVIOUS
<1>3. RemoveAt(s, i) = a \o b
  BY DEF RemoveAt
<1> HIDE DEF a, b
<1>4. /\ a \o b \in Seq(S) /\ Len(a \o b) = Len(s) - 1
      /\ \A j \in 1..Len(a \o b) : (a \o b)[j] = IF j <= Len(a) THEN a[j] ELSE b[j - Len(a)]
  BY <1>1, <1>2
<1>5. ASSUME NEW j \in 1..(Len(s) - 1)
      PROVE  (a \o b)[j] = IF j < i THEN s[j] ELSE s[j + 1]
  <2>1. CASE j < i
    BY <2>1, <1>1, <1>4
  <2>2. CASE ~(j < i)
    <3>1. j - Len(a) \in 1..(Len(s) - i) /\ i + (j - Len(a)) = j + 1
      BY <2>2, <1>1
    <3>2. (a \o b)[j] = b[j - Len(a)]
      BY <2>2, <1>1, <1>4
    <3> QED
      BY <2>2, <3>1, <3>2, <1>2
  <2> QED
    BY <2>1, <2>2
<1>6. DOMAIN (a \o b) = 1..(Len(s) - 1)
  BY <1>4
<1> QED
  BY <1>3, <1>4, <1>5, <1>6

(* An entry is removed with its key; the others keep their order. *)
LEMMA WithoutOK ==
    ASSUME NEW s \in Seq(Entries), UniqueKeys(s), NEW k
    PROVE  /\ Without(s, k) \in Seq(Entries)
           /\ Len(Without(s, k)) <= Len(s)
           /\ UniqueKeys(Without(s, k))
           /\ Among(Without(s, k), s)
           /\ \A j \in DOMAIN Without(s, k) : Without(s, k)[j].key # k
<1>1. CASE ~ \E i \in DOMAIN s : s[i].key = k
  BY <1>1 DEF Without, Among
<1>2. CASE \E i \in DOMAIN s : s[i].key = k
  <2>1. PICK i \in DOMAIN s : s[i].key = k /\ Without(s, k) = RemoveAt(s, i)
    BY <1>2 DEF Without
  <2> DEFINE w == RemoveAt(s, i)
             at(j) == IF j < i THEN j ELSE j + 1
  <2>2. w \in Seq(Entries) /\ Len(w) = Len(s) - 1
    BY RemoveAtSeq
  <2>3. \A j \in DOMAIN w : at(j) \in DOMAIN s /\ at(j) # i /\ w[j] = s[at(j)]
    <3> SUFFICES ASSUME NEW j \in DOMAIN w
                 PROVE  at(j) \in DOMAIN s /\ at(j) # i /\ w[j] = s[at(j)]
      OBVIOUS
    <3>1. w[j] = IF j < i THEN s[j] ELSE s[j + 1]
      BY RemoveAtSeq
    <3>2. j \in 1..(Len(s) - 1) /\ DOMAIN s = 1..Len(s)
      BY <2>2
    <3> QED
      BY <3>1, <3>2
  <2>4. \A j \in DOMAIN w, m \in DOMAIN w : at(j) = at(m) => j = m
    BY <2>2
  <2> HIDE DEF w, at
  <2>5. UniqueKeys(w)
    BY <2>3, <2>4 DEF UniqueKeys
  <2>6. \A j \in DOMAIN w : w[j].key # k
    BY <2>1, <2>3 DEF UniqueKeys
  <2>7. Without(s, k) = w
    BY <2>1 DEF w
  <2> QED
    BY <2>2, <2>3, <2>5, <2>6, <2>7 DEF Among
<1> QED
  BY <1>1, <1>2

(* evict keeps the newest entries, and no more than fit. *)
LEMMA EvictedOK ==
    ASSUME NEW s \in Seq(Entries), UniqueKeys(s)
    PROVE  CacheOK(Evicted(s)) /\ Among(Evicted(s), s)
<1>1. CASE Len(s) <= MAX_CACHE_ENTRIES
  BY <1>1, CacheSizeAssumption DEF Evicted, EvictedTo, CacheOK, Among
<1>2. CASE Len(s) > MAX_CACHE_ENTRIES
  <2> DEFINE off == Len(s) - MAX_CACHE_ENTRIES
             e == SubSeq(s, off + 1, Len(s))
  <2>1. Evicted(s) = e
    BY <1>2 DEF Evicted, EvictedTo
  <2>2. off \in Nat /\ off + MAX_CACHE_ENTRIES = Len(s)
    BY <1>2, CacheSizeAssumption
  <2> HIDE DEF off
  <2>3. e \in Seq(Entries) /\ Len(e) = MAX_CACHE_ENTRIES
    BY <2>2, CacheSizeAssumption
  <2>4. \A j \in DOMAIN e : off + j \in DOMAIN s /\ e[j] = s[off + j]
    BY <2>2, <2>3, CacheSizeAssumption
  <2>5. \A j, m \in DOMAIN e : off + j = off + m => j = m
    BY <2>2, <2>3
  <2> HIDE DEF e
  <2>6. UniqueKeys(e)
    BY <2>4, <2>5 DEF UniqueKeys
  <2> QED
    BY <2>1, <2>3, <2>4, <2>6, CacheSizeAssumption DEF CacheOK, Among
<1> QED
  BY <1>1, <1>2, CacheSizeAssumption

(* A stored entry replaces that of its key, unless it says the same. *)
LEMMA StoredOK ==
    ASSUME NEW s, CacheOK(s), NEW e \in Entries
    PROVE  /\ CacheOK(Stored(s, e))
           /\ \/ Stored(s, e) = s
              \/ \A j \in DOMAIN Stored(s, e) :
                    \/ Stored(s, e)[j] = e
                    \/ \E i \in DOMAIN s : Stored(s, e)[j] = s[i] /\ s[i].key # e.key
<1> DEFINE w == Without(s, e.key)
           a == Append(w, e)
<1>1. CASE Stored(s, e) = s
  BY <1>1
<1>2. CASE Stored(s, e) # s
  <2>1. Stored(s, e) = Evicted(a)
    BY <1>2 DEF Stored
  <2>2. /\ w \in Seq(Entries) /\ UniqueKeys(w) /\ Among(w, s)
        /\ \A j \in DOMAIN w : w[j].key # e.key
    BY WithoutOK DEF CacheOK
  <2> HIDE DEF w
  <2>3. /\ a \in Seq(Entries) /\ Len(a) = Len(w) + 1 /\ a[Len(w) + 1] = e
        /\ \A j \in 1..Len(w) : j \in DOMAIN w /\ a[j] = w[j]
        /\ DOMAIN a = 1..(Len(w) + 1)
    BY <2>2
  <2> HIDE DEF a
  <2>4. UniqueKeys(a)
    <3> SUFFICES ASSUME NEW i \in DOMAIN a, NEW j \in DOMAIN a, a[i].key = a[j].key
                 PROVE  i = j
      BY DEF UniqueKeys
    <3>1. CASE i \in 1..Len(w) /\ j \in 1..Len(w)
      BY <3>1, <2>2, <2>3 DEF UniqueKeys
    <3>2. CASE i = Len(w) + 1 \/ j = Len(w) + 1
      BY <3>2, <2>2, <2>3
    <3>3. Len(w) \in Nat
      BY <2>2
    <3> QED
      BY <3>1, <3>2, <3>3, <2>3
  <2>5. CacheOK(Evicted(a)) /\ Among(Evicted(a), a)
    BY <2>3, <2>4, EvictedOK
  <2>6. ASSUME NEW j \in DOMAIN a
        PROVE  a[j] = e \/ \E i \in DOMAIN s : a[j] = s[i] /\ s[i].key # e.key
    <3>1. CASE j = Len(w) + 1
      BY <3>1, <2>3
    <3>2. CASE j \in 1..Len(w)
      BY <3>2, <2>2, <2>3 DEF Among
    <3>3. Len(w) \in Nat
      BY <2>2
    <3> QED
      BY <3>1, <3>2, <3>3, <2>3
  <2> QED
    BY <2>1, <2>5, <2>6 DEF Among
<1> QED
  BY <1>1, <1>2

(* A write goes through or is refused. *)
LEMMA SaveOK ==
    ASSUME SessionInv, NEW entries, Save(entries)
    PROVE  /\ disk' \in {disk, entries} /\ faults' \in 0..MaxFaults
           /\ unsaved' \in BOOLEAN /\ (unsaved' \/ disk' = entries)
<1>1. faults \in 0..MaxFaults /\ MaxFaults \in Nat
  BY SessionLimitAssumption DEF SessionInv, TypeOK
<1>2. CASE disk' = entries /\ unsaved' = FALSE /\ UNCHANGED faults
  BY <1>1, <1>2
<1>3. CASE faults < MaxFaults /\ faults' = faults + 1 /\ unsaved' = TRUE /\ UNCHANGED disk
  BY <1>1, <1>3
<1> QED
  BY <1>2, <1>3 DEF Save

(* A write of the disk leaves what is held in the snapshot, or says that it did not. *)
LEMMA HoldOK ==
    ASSUME SessionInv, NEW entries, CacheOK(entries), Hold(entries)
    PROVE  /\ held' = entries /\ disk' \in {disk, entries}
           /\ CacheOK(held') /\ CacheOK(disk')
           /\ generation' = generation
           /\ faults' \in 0..MaxFaults /\ unsaved' \in BOOLEAN
           /\ DiskFollows'
<1>1. CacheOK(disk)
  BY DEF SessionInv, TypeOK, CacheOK
<1>2. CASE entries = held
  <2>1. UNCHANGED <<held, disk, unsaved, faults, generation>>
    BY <1>2 DEF Hold
  <2>2. unsaved \in BOOLEAN /\ faults \in 0..MaxFaults /\ DiskFollows
    BY DEF SessionInv, TypeOK
  <2> QED
    BY <1>1, <1>2, <2>1, <2>2 DEF DiskFollows, CacheOK
<1>3. CASE entries # held
  <2>1. held' = entries /\ Save(entries) /\ UNCHANGED generation
    BY <1>3 DEF Hold
  <2> QED
    BY <1>1, <2>1, SaveOK DEF DiskFollows
<1> QED
  BY <1>2, <1>3

(* The cache is empty after a reset; the snapshot is, or is what it was. *)
LEMMA ResetOK ==
    ASSUME SessionInv, Reset
    PROVE  /\ held' = <<>> /\ disk' \in {disk, <<>>}
           /\ CacheOK(held') /\ CacheOK(disk')
           /\ generation' = generation + 1 /\ generation' \in 0..MaxGenerations
           /\ faults' \in 0..MaxFaults /\ unsaved' \in BOOLEAN
           /\ DiskFollows'
<1>1. CacheOK(disk)
  BY DEF SessionInv, TypeOK, CacheOK
<1>2. CacheOK(<<>>)
  BY CacheSizeAssumption DEF CacheOK, UniqueKeys
<1>3. Save(<<>>) /\ held' = <<>> /\ generation' = generation + 1 /\ generation < MaxGenerations
  BY DEF Reset
<1>4. generation' \in 0..MaxGenerations
  BY <1>3, SessionLimitAssumption DEF SessionInv, TypeOK
<1> QED
  BY <1>1, <1>2, <1>3, <1>4, SaveOK DEF DiskFollows

(* What an edit or a failed refresh leaves of the cache. *)
LEMMA EditedOK ==
    ASSUME SessionInv, NEW v \in 0..MaxVersion
    PROVE  /\ CacheOK(Edited(held, v))
           /\ \A j \in DOMAIN Edited(held, v) :
                 \/ Edited(held, v)[j].key = "list" /\ Edited(held, v)[j].via = "told"
                 \/ \E i \in DOMAIN held : Edited(held, v)[j] = held[i]
<1>1. CacheOK(held)
  BY DEF SessionInv, TypeOK, CacheOK
<1>2. CASE ~ \E j \in DOMAIN held : held[j].key = "list"
  BY <1>1, <1>2 DEF Edited
<1>3. CASE \E j \in DOMAIN held : held[j].key = "list"
  <2>1. PICK i \in DOMAIN held :
           /\ held[i].key = "list"
           /\ Edited(held, v) = Stored(held, [held[i] EXCEPT !.version = v, !.via = "told"])
    BY <1>3 DEF Edited
  <2> DEFINE e == [held[i] EXCEPT !.version = v, !.via = "told"]
  <2>2. held[i] \in Entries
    BY <1>1 DEF CacheOK
  <2>3. e \in Entries /\ e.key = "list" /\ e.via = "told"
    BY <2>1, <2>2 DEF Entries
  <2> HIDE DEF e
  <2>4. Edited(held, v) = Stored(held, e)
    BY <2>1 DEF e
  <2> QED
    BY <1>1, <2>3, <2>4, StoredOK
<1> QED
  BY <1>2, <1>3

(* A failed load adds at most an empty list, and that one is told. *)
LEMMA EmptyListedOK ==
    ASSUME SessionInv
    PROVE  /\ CacheOK(EmptyListed(held))
           /\ \A j \in DOMAIN EmptyListed(held) :
                 \/ EmptyListed(held)[j].key = "list" /\ EmptyListed(held)[j].via = "told"
                 \/ \E i \in DOMAIN held : EmptyListed(held)[j] = held[i]
<1> DEFINE e == [key |-> "list", account |-> Last(sessions), version |-> Empty, via |-> "told"]
<1>1. CacheOK(held)
  BY DEF SessionInv, TypeOK, CacheOK
<1>2. e \in Entries
  <2>1. sessions \in Seq(Accounts) /\ Len(sessions) \in DOMAIN sessions
    <3>1. sessions \in Seq(Accounts) /\ Len(sessions) \in 1..MaxSessions
      BY DEF SessionInv, TypeOK
    <3> QED
      BY <3>1, SessionLimitAssumption
  <2>2. Last(sessions) \in Accounts
    BY <2>1 DEF Last
  <2> QED
    BY <2>2 DEF Entries, Keys
<1>3. e.key = "list" /\ e.via = "told"
  OBVIOUS
<1>4. EmptyListed(held) \in {held, Stored(held, e)}
  BY DEF EmptyListed
<1> HIDE DEF e
<1>5. CASE EmptyListed(held) = held
  BY <1>1, <1>5
<1>6. CASE EmptyListed(held) = Stored(held, e)
  BY <1>1, <1>2, <1>3, <1>6, StoredOK
<1> QED
  BY <1>4, <1>5, <1>6

LEMMA UnblockedOK ==
    ASSUME SessionInv
    PROVE  /\ CacheOK(Unblocked(held)) /\ Among(Unblocked(held), held)
           /\ ~BlockedIn(Unblocked(held))
<1>1. CacheOK(held)
  BY DEF SessionInv, TypeOK, CacheOK
<1>2. CASE BlockedIn(held)
  BY <1>1, <1>2, WithoutOK, CacheSizeAssumption DEF Unblocked, CacheOK, BlockedIn
<1>3. CASE ~BlockedIn(held)
  BY <1>1, <1>3 DEF Unblocked, Among
<1> QED
  BY <1>2, <1>3

(* An entry that blocks was there, or is a verdict that blocks. *)
LEMMA BlockedFrom ==
    ASSUME NEW s, NEW t, Among(t, s), BlockedIn(t)
    PROVE  BlockedIn(s)
  BY DEF Among, BlockedIn

(* With the snapshot following what is held, it is enough that this does not block. *)
LEMMA DroppedIf ==
    ASSUME DiskFollows, unrefreshed => ~BlockedIn(held)
    PROVE  DroppedVerdictStaysDropped
  BY DEF DiskFollows, DroppedVerdictStaysDropped

-----------------------------------------------------------------------------
(* Every action keeps the invariant *)

LEMMA InitOK ==
    Init => SessionInv
<1> SUFFICES ASSUME Init PROVE SessionInv
  OBVIOUS
<1>1. PICK a \in Accounts : sessions = <<a>>
  BY DEF Init
<1>2. sessions \in Seq(Accounts) /\ Len(sessions) = 1 /\ DOMAIN sessions = {1}
  BY <1>1
<1>3. /\ MaxSessions \in Nat /\ 1 <= MaxSessions
      /\ MaxGenerations \in Nat /\ MaxVersion \in Nat
      /\ MaxRequests \in Nat /\ MaxFaults \in Nat
  BY SessionLimitAssumption
<1>4. /\ <<>> \in Seq(Entries) /\ Len(<<>>) = 0 /\ DOMAIN <<>> = {}
      /\ MAX_CACHE_ENTRIES \in Nat
  BY CacheSizeAssumption
<1>5. {unsaved, unrefreshed, misbilled, crossed} \subseteq BOOLEAN
  BY DEF Init
<1>6. TypeOK
  BY <1>1, <1>2, <1>3, <1>4, <1>5 DEF Init, TypeOK
<1>7. held = <<>> /\ disk = <<>> /\ DOMAIN held = {} /\ DOMAIN disk = {}
  BY <1>4 DEF Init
<1>8. ~BlockedIn(held) /\ UniqueKeys(held) /\ UniqueKeys(disk) /\ AnswersOld
  BY <1>7 DEF BlockedIn, UniqueKeys, AnswersOld
<1>9. /\ TokenPhase /\ RequestsOK /\ SlotsHeld /\ OneRequestPerKey /\ OwnIdentification
      /\ KnownId /\ BuyerIsBilled
  BY DEF Init, TokenPhase, RequestsOK, SlotsHeld, OneRequestPerKey, OwnIdentification, KnownId,
         BuyerIsBilled
<1>10. DiskFollows /\ DroppedVerdictStaysDropped
  BY <1>7, <1>8 DEF DiskFollows, DroppedVerdictStaysDropped
<1> QED
  BY <1>6, <1>8, <1>9, <1>10 DEF SessionInv

(* A request just made belongs to this generation and this token. *)
LEMMA RequestType ==
    ASSUME SessionInv, NEW k \in Keys, NEW how \in {"asked", "told", "edit", "identify"}
    PROVE  /\ Request(k, how) \in Requests
           /\ Request(k, how).key = k /\ Request(k, how).how = how
           /\ Request(k, how).gen = generation /\ Request(k, how).token = token
           /\ Request(k, how).answer = Waiting /\ Request(k, how).buyer = None
           /\ Request(k, how).shared = (how \in {"asked", "identify"})
<1>1. generation \in 0..MaxGenerations /\ token \in 0..MaxSessions
  BY SessionLimitAssumption DEF SessionInv, TypeOK
<1> QED
  BY <1>1 DEF Request, Requests, Waiting

LEMMA StartOK ==
    ASSUME SessionInv, NEW k \in Keys, NEW how \in {"asked", "told", "edit"},
           Start(Request(k, how)), how = "asked" => ~Joined(k), how = "edit" => k = "list",
           how = "asked" => k # "identity",
           UNCHANGED <<server, session, cache, purchaser, faults, unrefreshed>>
    PROVE  SessionInv'
<1> DEFINE q == Request(k, how)
<1>1. /\ q \in Requests /\ q.key = k /\ q.how = how /\ q.gen = generation /\ q.token = token
      /\ q.answer = Waiting /\ q.buyer = None /\ q.shared = (how = "asked")
  BY RequestType
<1>2. requests' = requests \cup {q} /\ started < MaxRequests /\ started' = started + 1
  BY DEF Start
<1> HIDE DEF q
<1>3. TypeOK'
  <2>1. TypeOK
    BY DEF SessionInv
  <2>2. requests' \subseteq Requests
    BY <1>1, <1>2, <2>1 DEF TypeOK
  <2>3. started' \in 0..MaxRequests
    BY <1>2, <2>1, SessionLimitAssumption DEF TypeOK
  <2> QED
    BY <2>1, <2>2, <2>3 DEF TypeOK, server, session, cache, purchaser
<1>4. UniqueKeys(held)' /\ UniqueKeys(disk)' /\ TokenPhase' /\ KnownId' /\ BuyerIsBilled'
      /\ DiskFollows' /\ DroppedVerdictStaysDropped'
  BY DEF SessionInv, server, session, cache, purchaser, UniqueKeys, TokenPhase, KnownId,
         BuyerIsBilled, DiskFollows, DroppedVerdictStaysDropped
<1>5. RequestsOK' /\ SlotsHeld' /\ OwnIdentification'
  <2>1. generation \in Nat /\ token \in 0..Len(sessions) /\ UNCHANGED <<sessions, version,
                                                                       keychain, generation>>
    BY DEF SessionInv, TypeOK, server, session, cache
  <2>2. RequestsOK'
    BY <1>1, <1>2, <2>1 DEF SessionInv, RequestsOK
  <2>3. SlotsHeld'
    BY <1>1, <1>2, <2>1 DEF SessionInv, SlotsHeld
  <2>4. OwnIdentification'
    BY <1>1, <1>2, <2>1 DEF SessionInv, OwnIdentification
  <2> QED
    BY <2>2, <2>3, <2>4
<1>6. OneRequestPerKey'
  <2>1. \A r \in requests : how = "asked" => ~(r.how = "asked" /\ r.key = k /\ r.gen = generation)
    BY DEF Joined, SessionInv, SlotsHeld
  <2> QED
    BY <1>1, <1>2, <2>1 DEF SessionInv, OneRequestPerKey, cache
<1>7. AnswersOld'
  BY <1>1, <1>2 DEF SessionInv, AnswersOld, server, cache
<1> QED
  BY <1>3, <1>4, <1>5, <1>6, <1>7 DEF SessionInv

(* The server answers with what the account has then. *)
LEMMA ServeOK ==
    ASSUME SessionInv, NEW r \in requests, Serve(r)
    PROVE  SessionInv'
<1>1. PICK new \in version[sessions[r.token]]..MaxVersion :
         /\ requests' = (requests \ {r}) \cup {[r EXCEPT !.answer = new]}
         /\ version' = [version EXCEPT ![sessions[r.token]] = new]
  BY DEF Serve
<1> DEFINE a == sessions[r.token]
           q == [r EXCEPT !.answer = new]
<1>2. r \in Requests /\ r.token \in DOMAIN sessions /\ r.token # 0 /\ a \in Accounts
  BY DEF Serve, SessionInv, TypeOK
<1>3. version \in [Accounts -> 0..MaxVersion] /\ new \in 0..MaxVersion /\ version[a] <= new
  <2>1. version \in [Accounts -> 0..MaxVersion]
    BY DEF SessionInv, TypeOK
  <2>2. version[a] \in 0..MaxVersion
    BY <1>2, <2>1
  <2> QED
    BY <1>1, <2>1, <2>2, SessionLimitAssumption
<1>4. /\ q \in Requests /\ q.key = r.key /\ q.how = r.how /\ q.gen = r.gen
      /\ q.token = r.token /\ q.shared = r.shared /\ q.buyer = r.buyer /\ q.answer = new
  BY <1>2, <1>3 DEF Requests
<1>5. /\ UNCHANGED <<sessions, live, session, cache, purchaser, started, faults, unrefreshed>>
      /\ r.answer = Waiting
  BY DEF Serve
<1>6. requests' = (requests \ {r}) \cup {q} /\ version' = [version EXCEPT ![a] = new]
  BY <1>1
<1> HIDE DEF q
<1>7. \A b \in Accounts : version[b] <= version'[b] /\ version'[b] \in 0..MaxVersion
  BY <1>2, <1>3, <1>6, SessionLimitAssumption
<1>8. version' \in [Accounts -> 0..MaxVersion] /\ version'[a] = new
  BY <1>2, <1>3, <1>6
<1> HIDE DEF a
<1>9. TypeOK'
  BY <1>4, <1>5, <1>6, <1>8 DEF SessionInv, TypeOK, session, cache, purchaser
<1>10. UniqueKeys(held)' /\ UniqueKeys(disk)' /\ TokenPhase' /\ KnownId' /\ BuyerIsBilled'
      /\ DiskFollows' /\ DroppedVerdictStaysDropped'
  BY <1>5 DEF SessionInv, session, cache, purchaser, UniqueKeys, TokenPhase, KnownId,
         BuyerIsBilled, DiskFollows, DroppedVerdictStaysDropped
<1>11. SlotsHeld' /\ OwnIdentification' /\ OneRequestPerKey'
  BY <1>4, <1>5, <1>6
  DEF SessionInv, session, cache, SlotsHeld, OwnIdentification, OneRequestPerKey
<1>12. RequestsOK'
  <2> SUFFICES ASSUME NEW u \in requests'
               PROVE  /\ u.gen <= generation /\ u.token \in 0..Len(sessions)
                      /\ u.answer # Waiting =>
                            u.token # 0 /\ u.answer <= version'[sessions[u.token]]
                      /\ u.how = "edit" => u.key = "list"
                      /\ u.how = "asked" => u.key # "identity"
    BY <1>5 DEF RequestsOK, cache
  <2>1. CASE u = q
    BY <2>1, <1>2, <1>4, <1>8, <1>3, SessionLimitAssumption DEF SessionInv, RequestsOK, a
  <2>2. CASE u \in requests
    <3>1. u.token # 0 => sessions[u.token] \in Accounts
      <4>1. u.token \in 0..Len(sessions)
        BY <2>2 DEF SessionInv, RequestsOK
      <4>2. sessions \in Seq(Accounts)
        BY DEF SessionInv, TypeOK
      <4> QED
        BY <4>1, <4>2
    <3>2. u.answer \in Int
      BY <2>2 DEF SessionInv, TypeOK, Requests, Waiting
    <3>3. u.token # 0 => /\ version[sessions[u.token]] \in Int
                         /\ version'[sessions[u.token]] \in Int
                         /\ version[sessions[u.token]] <= version'[sessions[u.token]]
      BY <3>1, <1>3, <1>7
    <3> QED
      BY <2>2, <3>2, <3>3 DEF SessionInv, RequestsOK
  <2> QED
    BY <2>1, <2>2, <1>6
<1>13. AnswersOld'
  <2>1. ASSUME NEW s, CacheOK(s), NEW i \in DOMAIN s, s[i].version <= version[s[i].account]
        PROVE  s[i].version <= version'[s[i].account]
    <3>1. s[i] \in Entries
      BY <2>1 DEF CacheOK
    <3>2. s[i].version \in Int /\ s[i].account \in Accounts
      BY <3>1, SessionLimitAssumption DEF Entries, Empty
    <3>3. /\ version[s[i].account] \in Int /\ version'[s[i].account] \in Int
          /\ version[s[i].account] <= version'[s[i].account]
      BY <3>2, <1>3, <1>7
    <3> QED
      BY <2>1, <3>2, <3>3
  <2>2. CacheOK(held) /\ CacheOK(disk) /\ held' = held /\ disk' = disk /\ generation' = generation
    BY <1>5 DEF SessionInv, TypeOK, CacheOK, cache
  <2>3. ASSUME NEW i \in DOMAIN held, held[i].via = "asked", held[i].account = a
        PROVE  held[i].version <= new
    BY <2>1, <2>2, <2>3, <1>8 DEF SessionInv, AnswersOld
  <2>4. ASSUME NEW i \in DOMAIN held, NEW u \in requests', held[i].via = "asked",
               u.how = "asked", u.gen = generation, u.key = held[i].key, u.answer # Waiting,
               sessions[u.token] = held[i].account
        PROVE  held[i].version <= u.answer
    <3>1. CASE u = q
      BY <3>1, <2>3, <2>4, <1>4 DEF a
    <3>2. CASE u \in requests
      BY <3>2, <2>4 DEF SessionInv, AnswersOld
    <3> QED
      BY <3>1, <3>2, <1>6
  <2>5. /\ \A i \in DOMAIN held :
              held[i].via = "asked" => held[i].version <= version'[held[i].account]
        /\ \A i \in DOMAIN disk :
              disk[i].via = "asked" => disk[i].version <= version'[disk[i].account]
    BY <2>1, <2>2 DEF SessionInv, AnswersOld
  <2> QED
    BY <1>5, <2>2, <2>4, <2>5 DEF AnswersOld
<1> QED
  BY <1>9, <1>10, <1>11, <1>12, <1>13 DEF SessionInv

(* Two requests that differ at most in whether others may join them. *)
Same(u, r) ==
    /\ u \in Requests
    /\ u.key = r.key /\ u.how = r.how /\ u.gen = r.gen /\ u.token = r.token
    /\ u.answer = r.answer /\ u.buyer = r.buyer
    /\ u.shared => r.shared

LEMMA FreedSame ==
    ASSUME NEW rs \in SUBSET Requests, NEW u \in Freed(rs)
    PROVE  /\ \E r \in rs : Same(u, r) /\ (r.how = "asked" => u = r)
           /\ u.how = "identify" => ~u.shared
<1>1. PICK r \in rs : u = IF r.how = "identify" THEN [r EXCEPT !.shared = FALSE] ELSE r
  BY DEF Freed
<1>2. r \in Requests
  OBVIOUS
<1>3. CASE r.how = "identify"
  <2>1. u = [r EXCEPT !.shared = FALSE]
    BY <1>1, <1>3
  <2>2. Same(u, r) /\ u.shared = FALSE
    BY <1>2, <2>1 DEF Same, Requests
  <2> QED
    BY <1>3, <2>2
<1>4. CASE r.how # "identify"
  BY <1>1, <1>2, <1>4 DEF Same
<1> QED
  BY <1>3, <1>4

LEMMA UnsharedSame ==
    ASSUME NEW rs \in SUBSET Requests, NEW u \in Unshared(rs)
    PROVE  \E r \in rs : Same(u, r)
<1>1. PICK r \in rs : u = IF r.how = "asked" THEN [r EXCEPT !.shared = FALSE] ELSE r
  BY DEF Unshared
<1>2. r \in Requests
  OBVIOUS
<1>3. CASE r.how = "asked"
  <2>1. u = [r EXCEPT !.shared = FALSE]
    BY <1>1, <1>3
  <2> QED
    BY <1>2, <2>1 DEF Same, Requests
<1>4. CASE r.how # "asked"
  BY <1>1, <1>2, <1>4 DEF Same
<1> QED
  BY <1>3, <1>4

(* A request ends, and what is held becomes `entries`. *)
LEMMA AnsweredOK ==
    ASSUME SessionInv, NEW entries, CacheOK(entries), Hold(entries),
           \A u \in requests' : \E r \in requests : Same(u, r) /\ (r.how = "asked" => u = r),
           UNCHANGED <<server, session, purchaser, started>>,
           unrefreshed' \in BOOLEAN, unrefreshed' => ~BlockedIn(entries),
           \A i \in DOMAIN entries :
              entries[i].via = "asked" => entries[i].version <= version[entries[i].account],
           \A i \in DOMAIN entries, u \in requests' :
              /\ entries[i].via = "asked" /\ u.how = "asked"
              /\ u.gen = generation /\ u.key = entries[i].key /\ u.answer # Waiting
              /\ sessions[u.token] = entries[i].account
              => entries[i].version <= u.answer
    PROVE  SessionInv'
<1>1. /\ held' = entries /\ disk' \in {disk, entries}
      /\ CacheOK(held') /\ CacheOK(disk')
      /\ generation' = generation
      /\ faults' \in 0..MaxFaults /\ unsaved' \in BOOLEAN
      /\ DiskFollows'
  BY HoldOK
<1>2. /\ UNCHANGED <<sessions, live, version, token, keychain, settling, holder>>
      /\ UNCHANGED <<identifiedUserId, billed, misbilled, crossed, started>>
  BY DEF server, session, purchaser
<1>3. TypeOK'
  <2>1. requests' \subseteq Requests
    BY DEF Same
  <2>2. {unsaved, unrefreshed, misbilled, crossed}' \subseteq BOOLEAN
    BY <1>1, <1>2 DEF SessionInv, TypeOK
  <2> QED
    BY <1>1, <1>2, <2>1, <2>2 DEF SessionInv, TypeOK, CacheOK
<1>4. UniqueKeys(held)' /\ UniqueKeys(disk)' /\ TokenPhase' /\ KnownId' /\ BuyerIsBilled'
  BY <1>1, <1>2 DEF SessionInv, CacheOK, UniqueKeys, TokenPhase, KnownId, BuyerIsBilled
<1>5. RequestsOK'
  BY <1>1, <1>2 DEF SessionInv, RequestsOK, Same
<1>6. SlotsHeld'
  BY <1>1 DEF SessionInv, SlotsHeld, Same
<1>7. OneRequestPerKey'
  BY <1>1 DEF SessionInv, OneRequestPerKey, Same
<1>8. OwnIdentification'
  BY <1>2 DEF SessionInv, OwnIdentification, Same
<1>9. DroppedVerdictStaysDropped'
  BY <1>1 DEF DiskFollows, DroppedVerdictStaysDropped
<1>10. AnswersOld'
  <2>1. \A i \in DOMAIN disk' : disk'[i].via = "asked" =>
                                  disk'[i].version <= version[disk'[i].account]
    BY <1>1 DEF SessionInv, AnswersOld
  <2> QED
    BY <1>1, <1>2, <2>1 DEF AnswersOld
<1> QED
  BY <1>1, <1>3, <1>4, <1>5, <1>6, <1>7, <1>8, <1>9, <1>10 DEF SessionInv

(* An answer is an entry of the account whose token the request carried. *)
LEMMA AnswerType ==
    ASSUME SessionInv, NEW r \in requests, HasAnswer(r)
    PROVE  /\ Answer(r) \in Entries /\ Answer(r).key = r.key
           /\ Answer(r).account = sessions[r.token]
           /\ Answer(r).via = IF r.how = "asked" THEN "asked" ELSE "told"
           /\ r.key # "identity" => Answer(r).version = r.answer /\ r.answer # Waiting
           /\ r.key = "identity" => Answer(r).version = 0
           /\ Answer(r).version <= version[sessions[r.token]]
           /\ r.token \in DOMAIN sessions /\ r.token # 0 /\ sessions[r.token] \in Accounts
<1>1. r \in Requests /\ r.token \in 0..Len(sessions)
  BY DEF SessionInv, TypeOK, RequestsOK
<1>2. r.token # 0 /\ (r.key # "identity" => r.answer \in 0..MaxVersion)
  <2>1. CASE r.key = "identity"
    <3>1. 0 \notin live
      BY DEF SessionInv, TypeOK
    <3> QED
      BY <2>1, <3>1 DEF HasAnswer
  <2>2. CASE r.key # "identity"
    <3>1. r.answer >= 0 /\ r.answer \in {Waiting} \cup 0..MaxVersion
      BY <1>1, <2>2 DEF HasAnswer, Requests
    <3>2. r.answer # Waiting /\ r.answer \in 0..MaxVersion
      BY <3>1, SessionLimitAssumption DEF Waiting
    <3> QED
      BY <3>2 DEF SessionInv, RequestsOK
  <2> QED
    BY <2>1, <2>2
<1>3. r.token \in DOMAIN sessions /\ sessions[r.token] \in Accounts
  BY <1>1, <1>2 DEF SessionInv, TypeOK
<1>4. version[sessions[r.token]] \in 0..MaxVersion
  BY <1>3 DEF SessionInv, TypeOK
<1>5. Answer(r) \in Entries
  BY <1>1, <1>2, <1>3, SessionLimitAssumption DEF Answer, Entries, Requests
<1>6. r.key # "identity" => r.answer # Waiting /\ r.answer <= version[sessions[r.token]]
  BY <1>2 DEF SessionInv, RequestsOK, Waiting
<1> QED
  BY <1>2, <1>3, <1>4, <1>5, <1>6, SessionLimitAssumption DEF Answer

(* Of an unchanged cache, or of a part of it, the invariant still says what it said. *)
LEMMA PartOld ==
    ASSUME SessionInv, NEW entries, Among(entries, held), requests' \subseteq requests
    PROVE  /\ \A i \in DOMAIN entries : entries[i].via = "asked" =>
                 entries[i].version <= version[entries[i].account]
           /\ \A i \in DOMAIN entries, u \in requests' :
                 /\ entries[i].via = "asked" /\ u.how = "asked"
                 /\ u.gen = generation /\ u.key = entries[i].key /\ u.answer # Waiting
                 /\ sessions[u.token] = entries[i].account
                 => entries[i].version <= u.answer
  BY DEF SessionInv, AnswersOld, Among

LEMMA FewerRequests ==
    ASSUME SessionInv, requests' \subseteq requests
    PROVE  \A u \in requests' : \E r \in requests : Same(u, r) /\ (r.how = "asked" => u = r)
  BY DEF SessionInv, TypeOK, Same

LEMMA ArriveOK ==
    ASSUME SessionInv, NEW r \in requests, Arrive(r)
    PROVE  SessionInv'
<1> DEFINE e == Answer(r)
           entries == IF Wanted(r) THEN Stored(held, e) ELSE held
<1>1. /\ r.how = "asked" /\ HasAnswer(r) /\ requests' = requests \ {r} /\ Hold(entries)
      /\ unrefreshed' = (unrefreshed /\ ~(r.key = "verdict" /\ Wanted(r)))
      /\ UNCHANGED <<server, session, purchaser, started>>
  BY DEF Arrive, Finished
<1>2. /\ e \in Entries /\ e.key = r.key /\ e.account = sessions[r.token] /\ e.via = "asked"
      /\ e.version <= version[e.account]
  BY <1>1, AnswerType
<1>3. CacheOK(held) /\ requests' \subseteq requests /\ Among(held, held)
  BY <1>1 DEF SessionInv, TypeOK, CacheOK, Among
<1>4. unrefreshed' \in BOOLEAN /\ (unrefreshed' => unrefreshed)
  BY <1>1
<1> HIDE DEF e
<1>5. CASE Wanted(r) /\ Stored(held, e) # held
  <2>1. /\ CacheOK(entries)
        /\ \A j \in DOMAIN entries :
              \/ entries[j] = e
              \/ \E i \in DOMAIN held : entries[j] = held[i] /\ held[i].key # e.key
    BY <1>2, <1>3, <1>5, StoredOK
  <2>2. r.gen = generation
    BY <1>5 DEF Wanted
  <2> HIDE DEF entries
  <2>3. ASSUME NEW u \in requests', u.how = "asked", u.gen = generation PROVE u.key # e.key
    BY <1>1, <1>2, <2>2, <2>3 DEF SessionInv, OneRequestPerKey
  <2>4. \A i \in DOMAIN entries : entries[i].via = "asked" =>
           entries[i].version <= version[entries[i].account]
    BY <1>2, <2>1, PartOld, <1>3
  <2>5. \A i \in DOMAIN entries, u \in requests' :
           /\ entries[i].via = "asked" /\ u.how = "asked"
           /\ u.gen = generation /\ u.key = entries[i].key /\ u.answer # Waiting
           /\ sessions[u.token] = entries[i].account
           => entries[i].version <= u.answer
    BY <2>1, <2>3, PartOld, <1>3
  <2>6. unrefreshed' => ~BlockedIn(entries)
    <3> SUFFICES ASSUME unrefreshed' PROVE ~BlockedIn(entries)
      OBVIOUS
    <3>1. r.key # "verdict" /\ ~BlockedIn(held)
      BY <1>1, <1>4, <1>5 DEF SessionInv, DroppedVerdictStaysDropped
    <3> QED
      BY <1>2, <2>1, <3>1 DEF BlockedIn
  <2> QED
    BY <1>1, <1>3, <1>4, <2>1, <2>4, <2>5, <2>6, AnsweredOK, FewerRequests
<1>6. CASE ~(Wanted(r) /\ Stored(held, e) # held)
  <2>1. entries = held
    BY <1>6
  <2>2. unrefreshed' => ~BlockedIn(held)
    BY <1>4 DEF SessionInv, DroppedVerdictStaysDropped
  <2>3. Hold(held)
    BY <1>1, <2>1
  <2> HIDE DEF entries
  <2> QED
    BY <1>1, <1>3, <1>4, <2>2, <2>3, AnsweredOK, FewerRequests, PartOld
<1> QED
  BY <1>5, <1>6

(* What a screen tells is no answer of revalidate; a verdict it tells is a fresh one. *)
LEMMA TellOK ==
    ASSUME SessionInv, NEW r \in requests, Tell(r)
    PROVE  SessionInv'
<1>1. /\ r.how \in {"told", "edit"} /\ HasAnswer(r) /\ requests' = requests \ {r}
      /\ UNCHANGED <<server, session, purchaser, started>>
  BY DEF Tell
<1>2. CacheOK(held) /\ requests' \subseteq requests /\ r \in Requests
  BY <1>1 DEF SessionInv, TypeOK, CacheOK
<1>3. CASE r.how = "edit" /\ Hold(Edited(held, r.answer)) /\ UNCHANGED unrefreshed
  <2> DEFINE entries == Edited(held, r.answer)
  <2>1. r.key = "list"
    BY <1>3 DEF SessionInv, RequestsOK
  <2>2. r.answer \in 0..MaxVersion
    BY <1>1, <1>2, <2>1, SessionLimitAssumption DEF HasAnswer, Requests, Waiting
  <2>3. /\ CacheOK(entries)
        /\ \A j \in DOMAIN entries :
              \/ entries[j].key = "list" /\ entries[j].via = "told"
              \/ \E i \in DOMAIN held : entries[j] = held[i]
    BY <2>2, EditedOK
  <2>4. Hold(entries)
    BY <1>3
  <2> HIDE DEF entries
  <2>5. \A i \in DOMAIN entries : entries[i].via = "asked" =>
           entries[i].version <= version[entries[i].account]
    BY <2>3 DEF SessionInv, AnswersOld
  <2>6. \A i \in DOMAIN entries, u \in requests' :
           /\ entries[i].via = "asked" /\ u.how = "asked"
           /\ u.gen = generation /\ u.key = entries[i].key /\ u.answer # Waiting
           /\ sessions[u.token] = entries[i].account
           => entries[i].version <= u.answer
    BY <2>3, <1>2 DEF SessionInv, AnswersOld
  <2>7. unrefreshed' \in BOOLEAN
    BY <1>3 DEF SessionInv, TypeOK
  <2>8. unrefreshed' => ~BlockedIn(entries)
    BY <1>3, <2>3 DEF SessionInv, DroppedVerdictStaysDropped, BlockedIn
  <2> QED
    BY <1>1, <1>2, <2>3, <2>4, <2>5, <2>6, <2>7, <2>8, AnsweredOK, FewerRequests
<1>4. CASE /\ r.how = "told"
           /\ Hold(Stored(held, Answer(r))) /\ unrefreshed' = (unrefreshed /\ r.key # "verdict")
  <2> DEFINE e == Answer(r)
             entries == Stored(held, e)
  <2>1. e \in Entries /\ e.key = r.key /\ e.via = "told"
    BY <1>1, <1>4, AnswerType
  <2> HIDE DEF e
  <2>2. CacheOK(entries) /\ \A j \in DOMAIN entries :
                               entries[j] = e \/ \E i \in DOMAIN held : entries[j] = held[i]
    BY <1>2, <2>1, StoredOK
  <2>3. Hold(entries)
    BY <1>4 DEF e
  <2> HIDE DEF entries
  <2>4. \A i \in DOMAIN entries : entries[i].via = "asked" =>
           entries[i].version <= version[entries[i].account]
    BY <2>1, <2>2 DEF SessionInv, AnswersOld
  <2>5. \A i \in DOMAIN entries, u \in requests' :
           /\ entries[i].via = "asked" /\ u.how = "asked"
           /\ u.gen = generation /\ u.key = entries[i].key /\ u.answer # Waiting
           /\ sessions[u.token] = entries[i].account
           => entries[i].version <= u.answer
    BY <2>1, <2>2, <1>2 DEF SessionInv, AnswersOld
  <2>6. unrefreshed' \in BOOLEAN /\ (unrefreshed' => unrefreshed /\ r.key # "verdict")
    BY <1>4
  <2>7. unrefreshed' => ~BlockedIn(entries)
    BY <2>1, <2>2, <2>6 DEF SessionInv, DroppedVerdictStaysDropped, BlockedIn
  <2> QED
    BY <1>1, <1>2, <2>2, <2>3, <2>4, <2>5, <2>6, <2>7, AnsweredOK, FewerRequests
<1> QED
  BY <1>3, <1>4 DEF Tell

(* No answer comes. A failed refresh of the verdict drops one that blocks. *)
LEMMA FailOK ==
    ASSUME SessionInv, NEW r \in requests, Fail(r)
    PROVE  SessionInv'
<1>1. UNCHANGED <<server, session, purchaser, started>>
  BY DEF Fail
<1>2. CacheOK(held) /\ Among(held, held)
  BY DEF SessionInv, TypeOK, CacheOK, Among
<1>3. \A u \in requests' : \E q \in requests : Same(u, q) /\ (q.how = "asked" => u = q)
  <2>1. CASE r.how = "identify"
    <3>1. requests' = Freed(requests \ {r}) /\ requests \ {r} \in SUBSET Requests
      BY <2>1 DEF Fail, SessionInv, TypeOK
    <3> QED
      BY <3>1, FreedSame
  <2>2. CASE r.how # "identify"
    BY <2>2, FewerRequests DEF Fail, Finished
  <2> QED
    BY <2>1, <2>2
<1>4. ASSUME NEW entries, Among(entries, held)
      PROVE  /\ \A i \in DOMAIN entries : entries[i].via = "asked" =>
                   entries[i].version <= version[entries[i].account]
             /\ \A i \in DOMAIN entries, u \in requests' :
                   /\ entries[i].via = "asked" /\ u.how = "asked"
                   /\ u.gen = generation /\ u.key = entries[i].key /\ u.answer # Waiting
                   /\ sessions[u.token] = entries[i].account
                   => entries[i].version <= u.answer
  <2>1. \A u \in requests' : u.how = "asked" => u \in requests
    BY <1>3 DEF Same
  <2> QED
    BY <1>4, <2>1 DEF SessionInv, AnswersOld, Among
<1>5. CASE Hold(Unblocked(held)) /\ unrefreshed' = TRUE
  <2>1. Hold(Unblocked(held)) /\ unrefreshed' = TRUE
    BY <1>5
  <2>2. CacheOK(Unblocked(held)) /\ Among(Unblocked(held), held) /\ ~BlockedIn(Unblocked(held))
    BY UnblockedOK
  <2> DEFINE entries == Unblocked(held)
  <2> HIDE DEF entries
  <2>3. Hold(entries) /\ CacheOK(entries) /\ Among(entries, held) /\ ~BlockedIn(entries)
    BY <2>1, <2>2 DEF entries
  <2>4. unrefreshed' \in BOOLEAN
    BY <2>1
  <2> QED
    BY <1>1, <1>3, <1>4, <2>3, <2>4, AnsweredOK
<1>6. CASE Hold(held) /\ UNCHANGED unrefreshed
  <2>1. unrefreshed' \in BOOLEAN /\ (unrefreshed' => ~BlockedIn(held))
    BY <1>6 DEF SessionInv, TypeOK, DroppedVerdictStaysDropped
  <2> QED
    BY <1>1, <1>2, <1>3, <1>4, <1>6, <2>1, AnsweredOK
<1>7. CASE Hold(EmptyListed(held)) /\ UNCHANGED unrefreshed
  <2> DEFINE entries == EmptyListed(held)
  <2>1. /\ CacheOK(entries)
        /\ \A j \in DOMAIN entries :
              \/ entries[j].key = "list" /\ entries[j].via = "told"
              \/ \E i \in DOMAIN held : entries[j] = held[i]
    BY EmptyListedOK
  <2>2. Hold(entries)
    BY <1>7
  <2> HIDE DEF entries
  <2>3. \A u \in requests' : u.how = "asked" => u \in requests
    BY <1>3 DEF Same
  <2>4. \A i \in DOMAIN entries : entries[i].via = "asked" =>
           entries[i].version <= version[entries[i].account]
    BY <2>1 DEF SessionInv, AnswersOld
  <2>5. \A i \in DOMAIN entries, u \in requests' :
           /\ entries[i].via = "asked" /\ u.how = "asked"
           /\ u.gen = generation /\ u.key = entries[i].key /\ u.answer # Waiting
           /\ sessions[u.token] = entries[i].account
           => entries[i].version <= u.answer
    BY <2>1, <2>3 DEF SessionInv, AnswersOld
  <2>6. unrefreshed' \in BOOLEAN /\ (unrefreshed' => ~BlockedIn(held))
    BY <1>7 DEF SessionInv, TypeOK, DroppedVerdictStaysDropped
  <2>7. unrefreshed' => ~BlockedIn(entries)
    BY <2>1, <2>6 DEF BlockedIn
  <2> QED
    BY <1>1, <1>3, <2>1, <2>2, <2>4, <2>5, <2>6, <2>7, AnsweredOK
<1> QED
  BY <1>5, <1>6, <1>7 DEF Fail

(* Signing out or in: the cache is reset, and no request under way is of the generation *)
(* that begins.                                                                         *)
LEMMA AccountChangeOK ==
    ASSUME SessionInv, Reset,
           \A u \in requests' : \E r \in requests : Same(u, r),
           sessions' \in Seq(Accounts), Len(sessions') \in 1..MaxSessions,
           Len(sessions) <= Len(sessions'),
           \A n \in 1..Len(sessions) : sessions'[n] = sessions[n],
           live' \subseteq 1..Len(sessions'), {token', holder'} \subseteq 0..Len(sessions'),
           settling' \in {"out", "in"}, TokenPhase', unrefreshed' \in BOOLEAN,
           UNCHANGED <<version, keychain, purchaser, started>>
    PROVE  SessionInv'
<1>1. /\ held' = <<>> /\ disk' \in {disk, <<>>}
      /\ CacheOK(held') /\ CacheOK(disk')
      /\ generation' = generation + 1 /\ generation' \in 0..MaxGenerations
      /\ faults' \in 0..MaxFaults /\ unsaved' \in BOOLEAN
      /\ DiskFollows'
  BY ResetOK
<1>2. /\ sessions \in Seq(Accounts) /\ Len(sessions) \in Nat /\ generation \in Nat
      /\ keychain \in 0..Len(sessions) /\ DOMAIN sessions = 1..Len(sessions)
      /\ DOMAIN sessions' = 1..Len(sessions') /\ Len(sessions') \in Nat
  <2>1. sessions \in Seq(Accounts) /\ generation \in Nat /\ keychain \in 0..Len(sessions)
    BY SessionLimitAssumption DEF SessionInv, TypeOK
  <2>2. Len(sessions) \in Nat /\ DOMAIN sessions = 1..Len(sessions)
    BY <2>1
  <2>3. Len(sessions') \in Nat /\ DOMAIN sessions' = 1..Len(sessions')
    OBVIOUS
  <2> QED
    BY <2>1, <2>2, <2>3
<1>3. /\ UNCHANGED <<version, keychain, identifiedUserId, billed, misbilled, crossed, started>>
  BY DEF purchaser
<1>4. TypeOK'
  <2>1. requests' \subseteq Requests
    BY DEF Same
  <2>2. {unsaved, unrefreshed, misbilled, crossed}' \subseteq BOOLEAN
    BY <1>1, <1>3 DEF SessionInv, TypeOK
  <2>3. {token, keychain, holder}' \subseteq 0..Len(sessions')
    BY <1>2, <1>3
  <2> QED
    BY <1>1, <1>2, <1>3, <2>1, <2>2, <2>3 DEF SessionInv, TypeOK, CacheOK
<1>5. UniqueKeys(held)' /\ UniqueKeys(disk)'
  BY <1>1 DEF CacheOK
<1>6. RequestsOK'
  <2> SUFFICES ASSUME NEW u \in requests', NEW r \in requests, Same(u, r)
               PROVE  /\ u.gen <= generation' /\ u.token \in 0..Len(sessions')
                      /\ u.answer # Waiting =>
                            u.token # 0 /\ u.answer <= version'[sessions'[u.token]]
                      /\ u.how = "edit" => u.key = "list"
                      /\ u.how = "asked" => u.key # "identity"
    BY DEF RequestsOK
  <2>1. /\ r.gen <= generation /\ r.token \in 0..Len(sessions) /\ r.gen \in Nat
        /\ r.answer # Waiting => r.token # 0 /\ r.answer <= version[sessions[r.token]]
        /\ r.how = "edit" => r.key = "list"
        /\ r.how = "asked" => r.key # "identity"
    BY SessionLimitAssumption DEF SessionInv, RequestsOK, TypeOK, Requests
  <2> QED
    BY <2>1, <1>1, <1>2, <1>3 DEF Same
<1>7. \A u \in requests' : u.gen # generation'
  <2>1. \A r \in requests : r.gen <= generation /\ r.gen \in Nat
    BY SessionLimitAssumption DEF SessionInv, RequestsOK, TypeOK, Requests
  <2> QED
    BY <2>1, <1>1, <1>2 DEF Same
<1>8. SlotsHeld' /\ OneRequestPerKey'
  BY <1>7 DEF SlotsHeld, OneRequestPerKey
<1>9. OwnIdentification'
  <2> SUFFICES ASSUME NEW u \in requests', NEW r \in requests, Same(u, r)
               PROVE  /\ u.how = "identify" /\ u.shared => keychain' # 0 /\ u.token = keychain'
                      /\ u.buyer # None =>
                            u.how = "identify" /\ u.token # 0 /\ sessions'[u.token] = u.buyer
    BY DEF OwnIdentification
  <2>1. r.token \in 0..Len(sessions)
    BY DEF SessionInv, RequestsOK
  <2>2. r.token # 0 => sessions'[r.token] = sessions[r.token]
    BY <2>1, <1>2
  <2> QED
    BY <2>2, <1>3 DEF SessionInv, OwnIdentification, Same
<1>10. KnownId' /\ BuyerIsBilled'
  <2>1. keychain # 0 => sessions'[keychain] = sessions[keychain]
    BY <1>2
  <2> QED
    BY <2>1, <1>3 DEF SessionInv, KnownId, BuyerIsBilled
<1>11. DroppedVerdictStaysDropped'
  BY <1>1 DEF DiskFollows, DroppedVerdictStaysDropped, BlockedIn
<1>12. AnswersOld'
  BY <1>1, <1>3 DEF SessionInv, AnswersOld
<1> QED
  BY <1>1, <1>4, <1>5, <1>6, <1>8, <1>9, <1>10, <1>11, <1>12 DEF SessionInv

LEMMA ClearTokenOK ==
    ASSUME SessionInv, ClearToken, live' \subseteq live, unrefreshed' \in BOOLEAN,
           NEW rs \in SUBSET requests, requests' = Unshared(rs)
    PROVE  SessionInv'
<1>1. /\ Reset /\ settling' = "out" /\ token' = 0 /\ holder' = 0
      /\ UNCHANGED <<sessions, version, keychain, purchaser, started>>
  BY DEF ClearToken
<1>2. \A u \in requests' : \E r \in requests : Same(u, r)
  <2>1. rs \in SUBSET Requests
    BY DEF SessionInv, TypeOK
  <2> QED
    BY <2>1, UnsharedSame
<1>3. /\ sessions' \in Seq(Accounts) /\ Len(sessions') \in 1..MaxSessions
      /\ Len(sessions) <= Len(sessions') /\ live' \subseteq 1..Len(sessions')
      /\ {token', holder'} \subseteq 0..Len(sessions')
      /\ \A n \in 1..Len(sessions) : sessions'[n] = sessions[n]
  BY <1>1, SessionLimitAssumption DEF SessionInv, TypeOK
<1>4. TokenPhase'
  BY <1>1 DEF TokenPhase
<1> QED
  BY <1>1, <1>2, <1>3, <1>4, AccountChangeOK

LEMMA SignOutOK ==
    ASSUME SessionInv, SignOut
    PROVE  SessionInv'
<1>1. ClearToken /\ live' \subseteq live /\ requests' = Unshared(requests)
  BY DEF SignOut
<1>2. unrefreshed' \in BOOLEAN
  BY DEF SignOut, SessionInv, TypeOK
<1> QED
  BY <1>1, <1>2, ClearTokenOK

LEMMA RejectOK ==
    ASSUME SessionInv, NEW r \in requests, Reject(r)
    PROVE  SessionInv'
<1>1. /\ ClearToken /\ live' \subseteq live /\ requests' = Unshared(requests \ {r})
      /\ unrefreshed' \in BOOLEAN
  BY DEF Reject
<1> QED
  BY <1>1, ClearTokenOK

LEMMA SignInOK ==
    ASSUME SessionInv, NEW a \in Accounts, SignIn(a)
    PROVE  SessionInv'
<1>1. /\ holder = 0 /\ settling = "none" /\ settling' = "in" /\ Len(sessions) < MaxSessions
      /\ sessions' = Append(sessions, a) /\ live' = live \cup {Len(sessions')}
      /\ Reset /\ requests' = Unshared(requests)
      /\ token' = Len(sessions') /\ holder' = Len(sessions')
      /\ UNCHANGED <<version, keychain, purchaser, started, unrefreshed>>
  BY DEF SignIn
<1>2. sessions \in Seq(Accounts) /\ Len(sessions) \in Nat /\ live \subseteq 1..Len(sessions)
  BY DEF SessionInv, TypeOK
<1>3. /\ sessions' \in Seq(Accounts) /\ Len(sessions') = Len(sessions) + 1
      /\ \A n \in 1..Len(sessions) : sessions'[n] = sessions[n]
  BY <1>1, <1>2
<1>4. /\ Len(sessions') \in 1..MaxSessions /\ Len(sessions) <= Len(sessions')
      /\ live' \subseteq 1..Len(sessions') /\ {token', holder'} \subseteq 0..Len(sessions')
  <2> DEFINE n == Len(sessions')
  <2>1. n = Len(sessions) + 1 /\ MaxSessions \in Nat /\ Len(sessions) < MaxSessions
    BY <1>1, <1>3, SessionLimitAssumption
  <2>2. live' = live \cup {n} /\ token' = n /\ holder' = n
    BY <1>1
  <2> HIDE DEF n
  <2>3. n \in 1..MaxSessions /\ Len(sessions) <= n /\ n \in 1..n /\ n \in 0..n
    BY <2>1, <1>2
  <2>4. live' \subseteq 1..n
    <3>1. \A m \in live : m \in 1..Len(sessions)
      BY <1>2
    <3>2. \A m \in 1..Len(sessions) : m \in 1..n
      BY <2>1, <1>2
    <3> QED
      BY <2>2, <2>3, <3>1, <3>2
  <2> QED
    BY <2>2, <2>3, <2>4 DEF n
<1>5. TokenPhase'
  BY <1>1, <1>2, <1>3 DEF SessionInv, TokenPhase
<1>6. \A u \in requests' : \E r \in requests : Same(u, r)
  BY <1>1, UnsharedSame DEF SessionInv, TypeOK
<1>7. unrefreshed' \in BOOLEAN
  BY <1>1 DEF SessionInv, TypeOK
<1> QED
  BY <1>1, <1>3, <1>4, <1>5, <1>6, <1>7, AccountChangeOK

(* Steps on the requests and the store's id that leave the cache and the server alone. *)
LEMMA StoreStepOK ==
    ASSUME SessionInv, UNCHANGED <<server, cache, faults, unrefreshed>>,
           requests' \subseteq Requests,
           \A u \in requests' :
              \/ \E r \in requests :
                    /\ u.key = r.key /\ u.how = r.how /\ u.gen = r.gen /\ u.token = r.token
                    /\ u.answer = r.answer /\ (r.how = "asked" => u = r)
              \/ /\ u.how = "identify" /\ u.gen <= generation
                 /\ u.token \in 0..Len(sessions) /\ u.answer = Waiting,
           {token', keychain', holder'} \subseteq 0..Len(sessions),
           settling' \in {"none", "out", "in"}, TokenPhase',
           {identifiedUserId', billed'} \subseteq Accounts \cup {None},
           started' \in 0..MaxRequests, misbilled' \in BOOLEAN, crossed' \in BOOLEAN,
           OwnIdentification', KnownId', BuyerIsBilled'
    PROVE  SessionInv'
<1>1. UNCHANGED <<sessions, live, version, held, disk, generation, unsaved>>
  BY DEF server, cache
<1>2. TypeOK'
  <2>1. {unsaved, unrefreshed, misbilled, crossed}' \subseteq BOOLEAN
    BY <1>1 DEF SessionInv, TypeOK
  <2> QED
    BY <1>1, <2>1 DEF SessionInv, TypeOK
<1>3. UniqueKeys(held)' /\ UniqueKeys(disk)' /\ DiskFollows' /\ DroppedVerdictStaysDropped'
  BY <1>1 DEF SessionInv, UniqueKeys, DiskFollows, DroppedVerdictStaysDropped
<1>4. RequestsOK'
  BY <1>1 DEF SessionInv, RequestsOK
<1>5. SlotsHeld' /\ OneRequestPerKey'
  BY <1>1 DEF SessionInv, SlotsHeld, OneRequestPerKey
<1>6. AnswersOld'
  BY <1>1 DEF SessionInv, AnswersOld
<1> QED
  BY <1>2, <1>3, <1>4, <1>5, <1>6 DEF SessionInv

LEMMA SettleOK ==
    ASSUME SessionInv, Settle
    PROVE  SessionInv'
<1>1. /\ settling # "none" /\ settling' = "none" /\ keychain' = token
      /\ UNCHANGED <<server, token, holder, cache, started, faults, unrefreshed>>
  BY DEF Settle
<1>2. /\ token \in 0..Len(sessions) /\ holder = token /\ requests \subseteq Requests
      /\ started \in 0..MaxRequests /\ misbilled \in BOOLEAN /\ crossed \in BOOLEAN
      /\ {identifiedUserId, billed} \subseteq Accounts \cup {None}
      /\ generation \in Nat
  BY <1>1, SessionLimitAssumption DEF SessionInv, TypeOK, TokenPhase
<1>3. {token', keychain', holder'} \subseteq 0..Len(sessions) /\ TokenPhase'
  BY <1>1, <1>2 DEF TokenPhase
<1>4. UNCHANGED <<sessions, generation>>
  BY <1>1 DEF server, cache
<1>5. CASE settling = "out"
  <2>1. /\ identifiedUserId' = None /\ billed' = None /\ requests' = Freed(requests)
        /\ UNCHANGED <<misbilled, crossed>>
    BY <1>5 DEF Settle, SignedOutOfStore
  <2>2. \A u \in requests' : \E r \in requests : Same(u, r) /\ (r.how = "asked" => u = r)
    BY <1>2, <2>1, FreedSame
  <2>3. \A u \in requests' : u.how = "identify" => ~u.shared
    BY <1>2, <2>1, FreedSame
  <2>4. OwnIdentification'
    BY <1>4, <2>2, <2>3 DEF SessionInv, OwnIdentification, Same
  <2>5. KnownId' /\ BuyerIsBilled'
    BY <2>1 DEF SessionInv, KnownId, BuyerIsBilled
  <2>6. requests' \subseteq Requests
    BY <2>2 DEF Same
  <2> QED
    BY <1>1, <1>2, <1>3, <2>1, <2>2, <2>4, <2>5, <2>6, StoreStepOK DEF Same
<1>6. CASE settling = "in"
  <2>1. keychain = 0 /\ token # 0
    BY <1>6 DEF SessionInv, TokenPhase
  <2> DEFINE q == Request("identity", "identify")
  <2>2. /\ q \in Requests /\ q.how = "identify" /\ q.gen = generation /\ q.token = token
        /\ q.answer = Waiting /\ q.buyer = None
    BY RequestType DEF Keys
  <2>3. requests' \in {requests, requests \cup {q}} /\ UNCHANGED purchaser
    BY <1>1, <1>6 DEF Settle, Identify
  <2> HIDE DEF q
  <2>4. UNCHANGED <<identifiedUserId, billed, misbilled, crossed>>
    BY <2>3 DEF purchaser
  <2>5. \A r \in requests : ~(r.how = "identify" /\ r.shared)
    BY <2>1 DEF SessionInv, OwnIdentification
  <2>6. OwnIdentification'
    BY <1>1, <1>4, <2>1, <2>2, <2>3, <2>5 DEF SessionInv, OwnIdentification
  <2>7. KnownId' /\ BuyerIsBilled'
    BY <2>1, <2>4 DEF SessionInv, KnownId, BuyerIsBilled
  <2>8. \A u \in requests' :
           \/ u \in requests
           \/ /\ u.how = "identify" /\ u.gen <= generation
              /\ u.token \in 0..Len(sessions) /\ u.answer = Waiting
    BY <1>2, <2>2, <2>3
  <2>9. requests' \subseteq Requests
    BY <1>2, <2>2, <2>3
  <2> QED
    BY <1>1, <1>2, <1>3, <2>4, <2>6, <2>7, <2>8, <2>9, StoreStepOK
<1> QED
  BY <1>1, <1>5, <1>6 DEF SessionInv, TypeOK

LEMMA IdentifiedOK ==
    ASSUME SessionInv, NEW r \in requests, Identified(r)
    PROVE  SessionInv'
<1> DEFINE account == sessions[r.token]
<1>1. /\ r.how = "identify" /\ HasAnswer(r)
      /\ identifiedUserId' = account /\ billed' = account /\ Charge(r.buyer, account)
      /\ crossed' = (crossed \/ keychain = 0 \/ sessions[keychain] # account)
      /\ requests' = Freed(requests \ {r})
      /\ UNCHANGED <<server, session, cache, started, faults, unrefreshed>>
  BY DEF Identified
<1>2. r.token # 0 /\ account \in Accounts
  BY <1>1, AnswerType
<1>3. requests \ {r} \in SUBSET Requests
  BY DEF SessionInv, TypeOK
<1>4. r.buyer \in {None, account}
  BY <1>2 DEF SessionInv, OwnIdentification
<1>5. misbilled' = (misbilled \/ r.buyer \notin {None, account})
  BY <1>1 DEF Charge
<1> HIDE DEF account
<1>6. misbilled' \in BOOLEAN /\ (misbilled' => misbilled)
  BY <1>4, <1>5
<1>7. /\ crossed' \in BOOLEAN
      /\ ~crossed' => ~crossed /\ keychain # 0 /\ sessions[keychain] = account
      /\ crossed => crossed'
  BY <1>1
<1>8. UNCHANGED <<sessions, token, keychain, holder, settling>>
  BY <1>1 DEF server, session
<1>9. \A u \in requests' :
         /\ \E q \in requests : Same(u, q) /\ (q.how = "asked" => u = q)
         /\ u.how = "identify" => ~u.shared
  BY <1>1, <1>3, FreedSame
<1>10. OwnIdentification'
  BY <1>8, <1>9 DEF SessionInv, OwnIdentification, Same
<1>11. KnownId'
  BY <1>1, <1>7, <1>8 DEF KnownId
<1>12. BuyerIsBilled'
  BY <1>6, <1>7 DEF SessionInv, BuyerIsBilled
<1>13. /\ {token', keychain', holder'} \subseteq 0..Len(sessions)
       /\ settling' \in {"none", "out", "in"} /\ TokenPhase' /\ started' \in 0..MaxRequests
       /\ requests' \subseteq Requests
  BY <1>1, <1>8, <1>9 DEF SessionInv, TypeOK, TokenPhase, Same
<1>14. \A u \in requests' : \E q \in requests :
          /\ u.key = q.key /\ u.how = q.how /\ u.gen = q.gen /\ u.token = q.token
          /\ u.answer = q.answer /\ (q.how = "asked" => u = q)
  BY <1>9 DEF Same
<1>15. {identifiedUserId', billed'} \subseteq Accounts \cup {None}
  BY <1>1, <1>2
<1>16. UNCHANGED <<server, cache, faults, unrefreshed>>
  BY <1>1
<1> QED
  BY <1>6, <1>7, <1>10, <1>11, <1>12, <1>13, <1>14, <1>15, <1>16, StoreStepOK

(* Whoever buys at once is the one whose id is remembered; whoever waits, waits for their *)
(* own.                                                                                   *)
LEMMA BuyOK ==
    ASSUME SessionInv, Buy
    PROVE  SessionInv'
<1> DEFINE buyer == sessions[holder]
<1>1. /\ SignedIn
      /\ UNCHANGED <<server, session, cache, identifiedUserId, billed, crossed, faults,
                     unrefreshed>>
  BY DEF Buy
<1>2. /\ holder # 0 /\ settling = "none" /\ keychain = holder /\ token = holder
      /\ holder \in 0..Len(sessions) /\ buyer \in Accounts
  BY <1>1 DEF SignedIn, SessionInv, TokenPhase, TypeOK
<1>3. /\ started \in 0..MaxRequests /\ misbilled \in BOOLEAN /\ crossed \in BOOLEAN
      /\ {identifiedUserId, billed} \subseteq Accounts \cup {None}
      /\ generation \in Nat /\ requests \subseteq Requests
  BY SessionLimitAssumption DEF SessionInv, TypeOK
<1>4. /\ UNCHANGED <<sessions, token, keychain, holder, settling, generation>>
      /\ UNCHANGED <<identifiedUserId, billed, crossed>>
      /\ UNCHANGED <<server, cache, faults, unrefreshed>>
  BY <1>1 DEF server, session, cache
<1>5. /\ {token', keychain', holder'} \subseteq 0..Len(sessions)
      /\ settling' \in {"none", "out", "in"} /\ TokenPhase' /\ crossed' \in BOOLEAN
      /\ {identifiedUserId', billed'} \subseteq Accounts \cup {None} /\ KnownId'
  BY <1>2, <1>3, <1>4 DEF SessionInv, TokenPhase, KnownId
<1> DEFINE fresh == [Request("identity", "identify") EXCEPT !.buyer = sessions[holder]]
<1>6. CASE identifiedUserId # None /\ Charge(buyer, billed) /\ UNCHANGED <<requests, started>>
  <2>1. misbilled' = (misbilled \/ buyer \notin {None, billed})
    BY <1>6 DEF Charge
  <2>2. ~crossed => buyer = billed
    BY <1>2, <1>6 DEF SessionInv, KnownId
  <2> HIDE DEF buyer
  <2>3. misbilled' \in BOOLEAN /\ (misbilled' => misbilled \/ crossed)
    BY <2>1, <2>2
  <2>4. BuyerIsBilled'
    BY <2>3, <1>4 DEF SessionInv, BuyerIsBilled
  <2>5. OwnIdentification' /\ requests' = requests /\ started' = started
    BY <1>4, <1>6 DEF SessionInv, OwnIdentification
  <2> QED
    BY <1>3, <1>4, <1>5, <2>3, <2>4, <2>5, StoreStepOK
<1>7. CASE Start(fresh) /\ UNCHANGED misbilled
  <2> DEFINE q == Request("identity", "identify")
  <2>1. /\ q \in Requests /\ q.how = "identify" /\ q.gen = generation /\ q.token = token
        /\ q.answer = Waiting
    BY RequestType DEF Keys
  <2>2. fresh = [q EXCEPT !.buyer = buyer]
    OBVIOUS
  <2> HIDE DEF q, buyer
  <2>3. /\ fresh \in Requests /\ fresh.how = "identify" /\ fresh.gen = generation
        /\ fresh.token = token /\ fresh.answer = Waiting /\ fresh.buyer = buyer
    BY <1>2, <2>1, <2>2 DEF Requests
  <2> HIDE DEF fresh
  <2>4. /\ requests' = requests \cup {fresh} /\ started < MaxRequests /\ started' = started + 1
    BY <1>7 DEF Start
  <2>5. OwnIdentification'
    BY <1>2, <1>4, <2>3, <2>4 DEF SessionInv, OwnIdentification, buyer
  <2>6. started' \in 0..MaxRequests
    BY <1>3, <2>4, SessionLimitAssumption
  <2>7. \A u \in requests' :
           \/ u \in requests
           \/ /\ u.how = "identify" /\ u.gen <= generation
              /\ u.token \in 0..Len(sessions) /\ u.answer = Waiting
    BY <1>2, <1>3, <2>3, <2>4
  <2>8. requests' \subseteq Requests /\ BuyerIsBilled' /\ misbilled' \in BOOLEAN
    BY <1>3, <1>4, <1>7, <2>3, <2>4 DEF SessionInv, BuyerIsBilled
  <2> QED
    BY <1>4, <1>5, <2>5, <2>6, <2>7, <2>8, StoreStepOK
<1>8. ASSUME NEW r \in requests, r.how = "identify", r.shared,
             requests' = (requests \ {r}) \cup {[r EXCEPT !.buyer = buyer]},
             UNCHANGED <<misbilled, started>>
      PROVE  SessionInv'
  <2> DEFINE q == [r EXCEPT !.buyer = buyer]
  <2>1. r \in Requests /\ r.token = keychain
    BY <1>3, <1>8 DEF SessionInv, OwnIdentification
  <2> HIDE DEF buyer
  <2>2. /\ q \in Requests /\ q.key = r.key /\ q.how = r.how /\ q.gen = r.gen
        /\ q.token = r.token /\ q.answer = r.answer /\ q.shared = r.shared /\ q.buyer = buyer
    BY <1>2, <2>1 DEF Requests
  <2>3. requests' = (requests \ {r}) \cup {q}
    BY <1>8
  <2> HIDE DEF q
  <2>4. OwnIdentification'
    BY <1>2, <1>4, <1>8, <2>1, <2>2, <2>3 DEF SessionInv, OwnIdentification, buyer
  <2>5. \A u \in requests' : \E o \in requests :
           /\ u.key = o.key /\ u.how = o.how /\ u.gen = o.gen /\ u.token = o.token
           /\ u.answer = o.answer /\ (o.how = "asked" => u = o)
    BY <1>8, <2>2, <2>3
  <2>6. requests' \subseteq Requests /\ BuyerIsBilled' /\ misbilled' \in BOOLEAN
        /\ started' \in 0..MaxRequests
    BY <1>3, <1>4, <1>8, <2>2, <2>3 DEF SessionInv, BuyerIsBilled
  <2> QED
    BY <1>4, <1>5, <2>4, <2>5, <2>6, StoreStepOK
<1> QED
  BY <1>6, <1>7, <1>8 DEF Buy

(* A launch finds the snapshot, and forgets that a refresh failed if it may be old. *)
LEMMA LaunchOK ==
    ASSUME SessionInv, Launch
    PROVE  SessionInv'
<1>1. /\ generation < MaxGenerations /\ generation' = generation + 1
      /\ disk' \in {disk, <<>>} /\ held' = disk' /\ unsaved' = FALSE
      /\ unrefreshed' = (unrefreshed /\ ~unsaved)
      /\ token' = keychain /\ holder' = keychain /\ settling' = "none"
      /\ identifiedUserId' = None
      /\ UNCHANGED <<server, keychain, billed, misbilled, crossed, started, faults>>
  BY DEF Launch
<1>2. UNCHANGED <<sessions, live, version>>
  BY <1>1 DEF server
<1>3. /\ generation' \in 0..MaxGenerations /\ keychain \in 0..Len(sessions)
      /\ Len(sessions) \in 1..MaxSessions /\ sessions \in Seq(Accounts)
      /\ keychain \in 0..MaxSessions
  BY <1>1, SessionLimitAssumption DEF SessionInv, TypeOK
<1>4. CacheOK(held') /\ CacheOK(disk')
  <2>1. CacheOK(disk)
    BY DEF SessionInv, TypeOK, CacheOK
  <2>2. CacheOK(<<>>)
    BY CacheSizeAssumption DEF CacheOK, UniqueKeys
  <2> QED
    BY <1>1, <2>1, <2>2
<1> DEFINE q == [Request("identity", "identify") EXCEPT !.gen = generation', !.token = keychain]
<1>5. /\ q \in Requests /\ q.how = "identify" /\ q.gen = generation' /\ q.token = keychain
      /\ q.answer = Waiting /\ q.buyer = None
  BY <1>3, RequestType DEF Keys, Requests
<1>6. requests' = IF keychain = 0 THEN {} ELSE {q}
  BY DEF Launch
<1> HIDE DEF q
<1>7. unrefreshed' \in BOOLEAN /\ (unrefreshed' => unrefreshed /\ ~unsaved)
  BY <1>1
<1>8. TypeOK'
  <2>1. {unsaved, unrefreshed, misbilled, crossed}' \subseteq BOOLEAN
    BY <1>1, <1>7 DEF SessionInv, TypeOK
  <2>2. requests' \subseteq Requests
    BY <1>5, <1>6
  <2> QED
    BY <1>1, <1>2, <1>3, <1>4, <2>1, <2>2 DEF SessionInv, TypeOK, CacheOK
<1>9. UniqueKeys(held)' /\ UniqueKeys(disk)' /\ TokenPhase' /\ KnownId' /\ BuyerIsBilled'
      /\ DiskFollows'
  BY <1>1, <1>2, <1>4
  DEF SessionInv, CacheOK, TokenPhase, KnownId, BuyerIsBilled, DiskFollows
<1>10. RequestsOK' /\ SlotsHeld' /\ OneRequestPerKey' /\ OwnIdentification'
  BY <1>1, <1>2, <1>3, <1>5, <1>6
  DEF RequestsOK, SlotsHeld, OneRequestPerKey, OwnIdentification
<1>11. DroppedVerdictStaysDropped'
  <2>1. unrefreshed' => ~BlockedIn(disk)
    BY <1>7 DEF SessionInv, DroppedVerdictStaysDropped
  <2>2. ~BlockedIn(<<>>)
    BY DEF BlockedIn
  <2> QED
    BY <1>1, <2>1, <2>2 DEF DroppedVerdictStaysDropped
<1>12. AnswersOld'
  <2>1. \A u \in requests' : u.how # "asked"
    BY <1>5, <1>6
  <2>2. \A i \in DOMAIN disk' : disk'[i].via = "asked" =>
                                  disk'[i].version <= version[disk'[i].account]
    BY <1>1 DEF SessionInv, AnswersOld
  <2> QED
    BY <1>1, <1>2, <2>1, <2>2 DEF AnswersOld
<1> QED
  BY <1>8, <1>9, <1>10, <1>11, <1>12 DEF SessionInv

LEMMA StepOK ==
    ASSUME SessionInv, [Next]_vars
    PROVE  SessionInv'
<1>1. ASSUME NEW k \in {"list", "verdict"}, Ask(k) PROVE SessionInv'
  <2>1. ~Joined(k) /\ Start(Request(k, "asked"))
        /\ UNCHANGED <<server, session, cache, purchaser, faults, unrefreshed>>
    BY <1>1 DEF Ask
  <2> QED
    BY <2>1, StartOK DEF Keys
<1>2. ASSUME NEW k \in {"verdict", "identity"}, Fetch(k) PROVE SessionInv'
  <2>1. Start(Request(k, "told"))
        /\ UNCHANGED <<server, session, cache, purchaser, faults, unrefreshed>>
    BY <1>2 DEF Fetch
  <2> QED
    BY <2>1, StartOK DEF Keys
<1>3. CASE Edit
  <2>1. Start(Request("list", "edit"))
        /\ UNCHANGED <<server, session, cache, purchaser, faults, unrefreshed>>
    BY <1>3 DEF Edit
  <2> QED
    BY <2>1, StartOK DEF Keys
<1>4. ASSUME NEW r \in requests,
             Serve(r) \/ Arrive(r) \/ Tell(r) \/ Fail(r) \/ Reject(r) \/ Identified(r)
      PROVE  SessionInv'
  BY <1>4, ServeOK, ArriveOK, TellOK, FailOK, RejectOK, IdentifiedOK
<1>5. CASE SignOut \/ Settle \/ Buy \/ Launch
  BY <1>5, SignOutOK, SettleOK, BuyOK, LaunchOK
<1>6. ASSUME NEW a \in Accounts, SignIn(a) PROVE SessionInv'
  BY <1>6, SignInOK
<1>7. CASE UNCHANGED vars
  <2>1. UNCHANGED <<server, session, cache, purchaser, requests, started, faults, unrefreshed>>
    BY <1>7 DEF vars, server, session, cache, purchaser
  <2> QED
    BY <2>1
    DEF server, session, cache, purchaser, SessionInv, TypeOK, UniqueKeys, TokenPhase,
        RequestsOK, SlotsHeld, OneRequestPerKey, OwnIdentification, KnownId, BuyerIsBilled,
        DiskFollows, DroppedVerdictStaysDropped, AnswersOld
<1> QED
  BY <1>1, <1>2, <1>3, <1>4, <1>5, <1>6, <1>7 DEF Next

LEMMA SessionInvariant == Spec => []SessionInv
<1>1. SessionInv /\ [Next]_vars => SessionInv'
  BY StepOK
<1> QED
  BY <1>1, InitOK, PTL DEF Spec

-----------------------------------------------------------------------------
(* The theorems *)

(* MobileSession keeps its types: the cache never outgrows its size, and every request *)
(* carries a token the phone was given, for any number of accounts, requests and       *)
(* launches.                                                                           *)
THEOREM SessionTypeCorrect == Spec => []TypeOK
<1>1. SessionInv => TypeOK
  BY DEF SessionInv
<1> QED
  BY <1>1, SessionInvariant, PTL

(* revalidate has at most one request under way for each key of whoever is signed in. *)
THEOREM KeysAskedOnce == Spec => []OneRequestPerKey
<1>1. SessionInv => OneRequestPerKey
  BY DEF SessionInv
<1> QED
  BY <1>1, SessionInvariant, PTL

(* The store bills whoever buys, if no identification outlived a sign-out: however often *)
(* the account changes and the app is launched.                                          *)
THEOREM BuyerBilled == Spec => []BuyerIsBilled
<1>1. SessionInv => BuyerIsBilled
  BY DEF SessionInv
<1> QED
  BY <1>1, SessionInvariant, PTL

(* A verdict dropped by a failed refresh is not shown again, and not on disk either unless *)
(* the disk refused: however often it refuses.                                             *)
THEOREM VerdictStaysDropped == Spec => []DroppedVerdictStaysDropped
<1>1. SessionInv => DroppedVerdictStaysDropped
  BY DEF SessionInv
<1> QED
  BY <1>1, SessionInvariant, PTL

(* One step never replaces an answer by an older one of the same account. *)
LEMMA InOrderStep ==
    ASSUME SessionInv, [Next]_vars, generation' = generation,
           NEW i \in DOMAIN held, NEW j \in DOMAIN held',
           held[i].key = held'[j].key, held[i].account = held'[j].account,
           held[i].via = "asked", held'[j].via = "asked"
    PROVE  held'[j].version >= held[i].version
<1>1. CacheOK(held) /\ held[i] \in Entries /\ held[i].version \in Int
  <2>1. CacheOK(held)
    BY DEF SessionInv, TypeOK, CacheOK
  <2>2. held[i] \in Entries
    BY <2>1 DEF CacheOK
  <2> QED
    BY <2>1, <2>2, SessionLimitAssumption DEF Entries, Empty
<1>2. \A m \in DOMAIN held : held'[j] = held[m] => held'[j].version >= held[i].version
  BY <1>1 DEF CacheOK, UniqueKeys
<1>3. CASE held' = held
  BY <1>2, <1>3
<1>4. ASSUME NEW r \in requests, Arrive(r) PROVE held'[j].version >= held[i].version
  <2> DEFINE e == Answer(r)
  <2>1. r.how = "asked" /\ HasAnswer(r)
        /\ Hold(IF Wanted(r) THEN Stored(held, e) ELSE held)
    BY <1>4 DEF Arrive
  <2>2. /\ e \in Entries /\ e.key = r.key /\ e.account = sessions[r.token]
        /\ r.key # "identity" => e.version = r.answer /\ r.answer # Waiting
        /\ r.key = "identity" => e.version = 0
    BY <2>1, AnswerType
  <2> HIDE DEF e
  <2>3. CASE ~Wanted(r)
    BY <2>1, <2>3, <1>3 DEF Hold
  <2>4. CASE Wanted(r)
    <3>1. held' = Stored(held, e)
      BY <2>1, <2>4 DEF Hold
    <3>2. held' = held \/ held'[j] = e \/ \E m \in DOMAIN held : held'[j] = held[m]
      BY <3>1, <1>1, <2>2, StoredOK
    <3>3. CASE held'[j] = e
      <4>1. r.key # "identity"
        BY <2>1 DEF SessionInv, RequestsOK
      <4>2. held[i].version <= r.answer
        BY <2>1, <2>2, <2>4, <3>3, <4>1 DEF SessionInv, AnswersOld, Wanted
      <4> QED
        BY <4>1, <4>2, <2>2, <3>3, <1>1 DEF Entries
    <3> QED
      BY <1>2, <1>3, <3>2, <3>3
  <2> QED
    BY <2>3, <2>4
<1>5. ASSUME NEW r \in requests, Tell(r) PROVE held'[j].version >= held[i].version
  <2>1. r.how \in {"told", "edit"} /\ HasAnswer(r)
    BY <1>5 DEF Tell
  <2>2. CASE r.how = "edit" /\ Hold(Edited(held, r.answer))
    <3>1. r.key = "list" /\ r \in Requests
      BY <2>2 DEF SessionInv, RequestsOK, TypeOK
    <3>2. r.answer \in 0..MaxVersion
      BY <2>1, <3>1, SessionLimitAssumption DEF HasAnswer, Requests, Waiting
    <3>3. held' = Edited(held, r.answer)
      BY <2>2 DEF Hold
    <3> QED
      BY <1>2, <3>2, <3>3, EditedOK
  <2>3. CASE r.how = "told" /\ Hold(Stored(held, Answer(r)))
    <3>1. Answer(r) \in Entries /\ Answer(r).via = "told"
      BY <2>1, <2>3, AnswerType
    <3>2. held' = Stored(held, Answer(r))
      BY <2>3 DEF Hold
    <3> QED
      BY <1>1, <1>2, <1>3, <3>1, <3>2, StoredOK
  <2> QED
    BY <1>5, <2>2, <2>3 DEF Tell
<1>6. ASSUME NEW r \in requests, Fail(r) PROVE held'[j].version >= held[i].version
  <2>1. held' \in {held, Unblocked(held), EmptyListed(held)}
    BY <1>6 DEF Fail, Hold
  <2>2. CASE held' = EmptyListed(held)
    BY <1>2, <2>2, EmptyListedOK
  <2> QED
    BY <1>2, <1>3, <2>1, <2>2, UnblockedOK DEF Among
<1>7. CASE Reset \/ Launch
  <2>1. generation \in Int
    BY DEF SessionInv, TypeOK
  <2> QED
    BY <1>7, <2>1 DEF Reset, Launch
<1>8. CASE UNCHANGED cache
  BY <1>3, <1>8 DEF cache
<1>9. CASE Next
  <2>1. ASSUME NEW r \in requests,
               Serve(r) \/ Arrive(r) \/ Tell(r) \/ Fail(r) \/ Reject(r) \/ Identified(r)
        PROVE  (\E q \in requests : Arrive(q) \/ Tell(q) \/ Fail(q)) \/ Reset \/ UNCHANGED cache
    BY <2>1 DEF Serve, Reject, ClearToken, Identified
  <2>2. ASSUME \/ \E k \in {"list", "verdict"} : Ask(k)
               \/ \E k \in {"verdict", "identity"} : Fetch(k)
               \/ Edit \/ Settle \/ Buy
        PROVE  UNCHANGED cache
    BY <2>2 DEF Ask, Fetch, Edit, Settle, Buy
  <2>3. ASSUME SignOut \/ \E a \in Accounts : SignIn(a)
        PROVE  Reset
    BY <2>3 DEF SignOut, ClearToken, SignIn
  <2> QED
    BY <1>4, <1>5, <1>6, <1>7, <1>8, <1>9, <2>1, <2>2, <2>3 DEF Next
<1> QED
  BY <1>8, <1>9 DEF vars, cache

(* An answer in the cache is replaced by a newer one of its account or by the same, *)
(* whatever order the network answers in.                                           *)
THEOREM AnswersStayInOrder == Spec => AnswersInOrder
<1> DEFINE A == generation' = generation =>
        \A i \in DOMAIN held, j \in DOMAIN held' :
            /\ held[i].key = held'[j].key /\ held[i].account = held'[j].account
            /\ held[i].via = "asked" /\ held'[j].via = "asked"
            => held'[j].version >= held[i].version
<1>1. SessionInv /\ [Next]_vars => [A]_vars
  BY InOrderStep
<1>2. Spec => [][A]_vars
  BY <1>1, SessionInvariant, PTL DEF Spec
<1> QED
  BY <1>2 DEF AnswersInOrder

-----------------------------------------------------------------------------
(* Nobody sees what another account was answered *)

(* What an answer or an edit leaves is what was held, or is of whoever is signed in. *)
LEMMA HoldOwn ==
    ASSUME SessionInv, OwnEntries, NEW entries, CacheOK(entries), Hold(entries),
           \A i \in DOMAIN entries : entries[i].via = "asked" =>
              \/ \E m \in DOMAIN held : entries[i] = held[m]
              \/ settling = "none" /\ holder # 0 /\ entries[i].account = sessions[holder],
           \A u \in requests' : u.how = "asked" => u \in requests,
           UNCHANGED <<server, session>>
    PROVE  OwnEntries'
<1>1. /\ held' = entries /\ disk' \in {disk, entries} /\ generation' = generation
      /\ faults' \in Nat
  BY HoldOK, SessionLimitAssumption
<1>2. UNCHANGED <<sessions, token, keychain, settling, holder>>
  BY DEF server, session
<1>3. faults' = 0 => faults = 0
  <2>1. faults' \in {faults, faults + 1} /\ faults \in Nat
    BY SessionLimitAssumption DEF Hold, Save, SessionInv, TypeOK
  <2> QED
    BY <2>1
<1>4. CASE settling = "none" /\ holder # 0
  BY <1>1, <1>2, <1>4 DEF OwnEntries, AskedOf
<1>5. CASE ~(settling = "none" /\ holder # 0)
  <2>1. NoneAsked(held) => NoneAsked(entries)
    BY <1>5 DEF NoneAsked
  <2>2. (settling = "none" /\ holder = 0 /\ faults = 0) \/ settling \in {"out", "in"}
        => NoneAsked(entries)
    BY <2>1 DEF OwnEntries
  <2>3. ASSUME NEW a PROVE NoneAsked(entries) => AskedOf(entries, a)
    BY DEF NoneAsked, AskedOf
  <2> QED
    BY <1>1, <1>2, <1>3, <1>5, <2>2, <2>3 DEF OwnEntries
<1> QED
  BY <1>4, <1>5

LEMMA ArriveOwn ==
    ASSUME SessionInv, OwnEntries, NEW r \in requests, Arrive(r)
    PROVE  OwnEntries'
<1> DEFINE e == Answer(r)
           entries == IF Wanted(r) THEN Stored(held, e) ELSE held
<1>1. /\ r.how = "asked" /\ HasAnswer(r) /\ requests' = requests \ {r} /\ Hold(entries)
      /\ UNCHANGED <<server, session>>
  BY DEF Arrive, Finished
<1>2. /\ e \in Entries /\ e.account = sessions[r.token] /\ r.token # 0
      /\ r.key # "identity" => r.answer # Waiting
  BY <1>1, AnswerType
<1>3. r.key # "identity"
  BY <1>1 DEF SessionInv, RequestsOK
<1>4. CacheOK(held)
  BY DEF SessionInv, TypeOK, CacheOK
<1> HIDE DEF e
<1>5. /\ CacheOK(entries)
      /\ \A i \in DOMAIN entries :
            (Wanted(r) /\ entries[i] = e) \/ \E m \in DOMAIN held : entries[i] = held[m]
  BY <1>2, <1>4, StoredOK
<1>6. Wanted(r) => settling = "none" /\ holder # 0 /\ e.account = sessions[holder]
  <2> SUFFICES ASSUME r.gen = generation
               PROVE  settling = "none" /\ holder # 0 /\ e.account = sessions[holder]
    BY DEF Wanted
  <2>1. r.token = token /\ settling = "none"
    BY <1>1, <1>2, <1>3 DEF OwnEntries
  <2> QED
    BY <1>2, <2>1 DEF SessionInv, TokenPhase
<1> HIDE DEF entries
<1> QED
  BY <1>1, <1>5, <1>6, HoldOwn

LEMMA TellOwn ==
    ASSUME SessionInv, OwnEntries, NEW r \in requests, Tell(r)
    PROVE  OwnEntries'
<1>1. /\ r.how \in {"told", "edit"} /\ HasAnswer(r) /\ requests' = requests \ {r}
      /\ UNCHANGED <<server, session>>
  BY DEF Tell
<1>2. CacheOK(held)
  BY DEF SessionInv, TypeOK, CacheOK
<1>3. CASE r.how = "edit" /\ Hold(Edited(held, r.answer))
  <2> DEFINE entries == Edited(held, r.answer)
  <2>1. r.key = "list" /\ r \in Requests
    BY <1>3 DEF SessionInv, RequestsOK, TypeOK
  <2>2. r.answer \in 0..MaxVersion
    BY <1>1, <2>1, SessionLimitAssumption DEF HasAnswer, Requests, Waiting
  <2>3. CacheOK(entries) /\ \A i \in DOMAIN entries : entries[i].via = "asked" =>
                               \E m \in DOMAIN held : entries[i] = held[m]
    BY <2>2, EditedOK
  <2>4. Hold(entries)
    BY <1>3
  <2> HIDE DEF entries
  <2> QED
    BY <1>1, <2>3, <2>4, HoldOwn
<1>4. CASE r.how = "told" /\ Hold(Stored(held, Answer(r)))
  <2> DEFINE entries == Stored(held, Answer(r))
  <2>1. Answer(r) \in Entries /\ Answer(r).via = "told"
    BY <1>1, <1>4, AnswerType
  <2>2. CacheOK(entries) /\ \A i \in DOMAIN entries : entries[i].via = "asked" =>
                               \E m \in DOMAIN held : entries[i] = held[m]
    BY <1>2, <2>1, StoredOK
  <2>3. Hold(entries)
    BY <1>4
  <2> HIDE DEF entries
  <2> QED
    BY <1>1, <2>2, <2>3, HoldOwn
<1> QED
  BY <1>3, <1>4 DEF Tell

LEMMA FailOwn ==
    ASSUME SessionInv, OwnEntries, NEW r \in requests, Fail(r)
    PROVE  OwnEntries'
<1>1. UNCHANGED <<server, session>>
  BY DEF Fail
<1>2. \A u \in requests' : u.how = "asked" => u \in requests
  <2>1. requests \ {r} \in SUBSET Requests
    BY DEF SessionInv, TypeOK
  <2> QED
    BY <2>1, FreedSame DEF Fail, Finished, Same
<1>3. PICK entries \in {held, Unblocked(held), EmptyListed(held)} : Hold(entries)
  BY DEF Fail
<1>4. /\ CacheOK(entries)
      /\ \A i \in DOMAIN entries : entries[i].via = "asked" =>
                                     \E m \in DOMAIN held : entries[i] = held[m]
  <2>1. CASE entries = held
    BY <2>1 DEF SessionInv, TypeOK, CacheOK
  <2>2. CASE entries = Unblocked(held)
    BY <2>2, UnblockedOK DEF Among
  <2>3. CASE entries = EmptyListed(held)
    BY <2>3, EmptyListedOK
  <2> QED
    BY <1>3, <2>1, <2>2, <2>3
<1> QED
  BY <1>1, <1>2, <1>3, <1>4, HoldOwn

(* Signing out leaves a snapshot only if the disk refuses, and signing in clears it then. *)
LEMMA ResetOwn ==
    ASSUME SessionInv, OwnEntries, MaxFaults <= 1, Reset,
           \A u \in requests' : u.gen # generation',
           \/ /\ settling # "in" /\ settling' = "out" /\ UNCHANGED <<sessions, keychain>>
           \/ settling = "none" /\ holder = 0 /\ settling' = "in"
    PROVE  OwnEntries'
<1>1. held' = <<>> /\ disk' \in {disk, <<>>}
  BY ResetOK
<1>2. /\ faults \in Nat /\ faults' \in Nat /\ MaxFaults \in Nat
      /\ disk' # <<>> => faults < MaxFaults /\ faults' = faults + 1
  <2>1. faults \in Nat /\ MaxFaults \in Nat /\ faults' \in Nat
    BY ResetOK, SessionLimitAssumption DEF SessionInv, TypeOK
  <2> QED
    BY <2>1 DEF Reset, Save
<1>3. NoneAsked(<<>>) /\ \A a : AskedOf(<<>>, a)
  BY DEF NoneAsked, AskedOf
<1>4. CASE settling # "in" /\ settling' = "out" /\ UNCHANGED <<sessions, keychain>>
  <2>1. keychain # 0 => AskedOf(disk, sessions[keychain])
    BY <1>4 DEF SessionInv, TypeOK, TokenPhase, OwnEntries
  <2>2. keychain # 0 => AskedOf(disk', sessions[keychain])
    BY <1>1, <1>3, <2>1
  <2>3. faults' = 0 => disk' = <<>>
    BY <1>2
  <2> QED
    BY <1>1, <1>3, <1>4, <2>2, <2>3 DEF OwnEntries
<1>5. CASE settling = "none" /\ holder = 0 /\ settling' = "in"
  <2>1. disk' # <<>> => faults = 0 /\ disk' = disk
    BY <1>1, <1>2
  <2>2. NoneAsked(disk')
    BY <1>3, <1>5, <2>1 DEF OwnEntries
  <2> QED
    BY <1>1, <1>3, <1>5, <2>2 DEF OwnEntries
<1> QED
  BY <1>4, <1>5

LEMMA NewGeneration ==
    ASSUME SessionInv, Reset, NEW rs \in SUBSET requests, requests' = Unshared(rs)
    PROVE  \A u \in requests' : u.gen # generation'
<1>1. rs \in SUBSET Requests
  BY DEF SessionInv, TypeOK
<1>2. \A r \in requests : r.gen <= generation /\ r.gen \in Nat /\ generation \in Nat
  BY SessionLimitAssumption DEF SessionInv, RequestsOK, TypeOK, Requests
<1>3. generation' = generation + 1
  BY DEF Reset
<1> QED
  BY <1>1, <1>2, <1>3, UnsharedSame DEF Same

LEMMA StepOwn ==
    ASSUME SessionInv, OwnEntries, MaxFaults <= 1, [Next]_vars
    PROVE  OwnEntries'
<1>1. ASSUME UNCHANGED <<server, session, cache, faults>>,
             \A u \in requests' :
                u.how = "asked" /\ u.gen = generation =>
                    \/ u \in requests
                    \/ u.token = token /\ (settling # "none" => u.answer = Waiting)
      PROVE  OwnEntries'
  BY <1>1 DEF OwnEntries, server, session, cache
<1>2. ASSUME NEW k \in Keys, NEW how \in {"asked", "told", "edit"}, Start(Request(k, how)),
             UNCHANGED <<server, session, cache, faults>>
      PROVE  OwnEntries'
  <2>1. Request(k, how).token = token /\ Request(k, how).answer = Waiting
    BY RequestType
  <2> QED
    BY <1>1, <1>2, <2>1 DEF Start
<1>3. CASE \/ \E k \in {"list", "verdict"} : Ask(k)
           \/ \E k \in {"verdict", "identity"} : Fetch(k)
           \/ Edit
  BY <1>2, <1>3 DEF Ask, Fetch, Edit, Keys
<1>4. ASSUME NEW r \in requests, Serve(r) PROVE OwnEntries'
  <2>1. /\ UNCHANGED <<sessions, live, session, cache, faults>>
        /\ \E new : requests' = (requests \ {r}) \cup {[r EXCEPT !.answer = new]}
        /\ TokenRead(r) /\ r \in Requests
    BY <1>4 DEF Serve, SessionInv, TypeOK
  <2>2. PICK new : requests' = (requests \ {r}) \cup {[r EXCEPT !.answer = new]}
    BY <2>1
  <2> DEFINE q == [r EXCEPT !.answer = new]
  <2>3. q.how = r.how /\ q.gen = r.gen /\ q.token = r.token
    BY <2>1 DEF Requests
  <2>4. r.gen = generation => settling = "none"
    <3>1. generation \in Nat
      BY SessionLimitAssumption DEF SessionInv, TypeOK
    <3> QED
      BY <2>1, <3>1 DEF TokenRead
  <2>5. requests' = (requests \ {r}) \cup {q}
    BY <2>2
  <2> HIDE DEF q
  <2> QED
    BY <2>1, <2>3, <2>4, <2>5 DEF OwnEntries, session, cache
<1>5. ASSUME NEW r \in requests, Arrive(r) \/ Tell(r) \/ Fail(r) PROVE OwnEntries'
  BY <1>5, ArriveOwn, TellOwn, FailOwn
<1>6. CASE SignOut \/ (\E r \in requests : Reject(r)) \/ (\E a \in Accounts : SignIn(a))
  <2>1. Reset /\ \E rs \in SUBSET requests : requests' = Unshared(rs)
    <3>1. \A r \in requests : requests \ {r} \in SUBSET requests
      OBVIOUS
    <3> QED
      BY <1>6, <3>1 DEF SignOut, Reject, SignIn, ClearToken
  <2>2. \A u \in requests' : u.gen # generation'
    BY <2>1, NewGeneration
  <2>3. \/ settling # "in" /\ settling' = "out" /\ UNCHANGED <<sessions, keychain>>
        \/ settling = "none" /\ holder = 0 /\ settling' = "in"
    BY <1>6 DEF SignOut, Reject, SignIn, ClearToken
  <2> QED
    BY <2>1, <2>2, <2>3, ResetOwn
<1>7. CASE Settle
  <2>1. /\ settling' = "none" /\ keychain' = token /\ settling \in {"out", "in"}
        /\ UNCHANGED <<sessions, token, holder, held, disk, generation, faults>>
    BY <1>7 DEF Settle, server, cache, SessionInv, TypeOK
  <2>2. \A u \in requests' : u.how = "asked" => u \in requests
    <3>1. requests' \in {Freed(requests), requests, requests \cup {Request("identity", "identify")}}
      BY <1>7 DEF Settle, SignedOutOfStore, Identify
    <3>2. Request("identity", "identify").how = "identify"
      BY RequestType DEF Keys
    <3>3. requests \in SUBSET Requests
      BY DEF SessionInv, TypeOK
    <3> QED
      BY <3>1, <3>2, <3>3, FreedSame DEF Same
  <2>3. \A s, a : NoneAsked(s) => AskedOf(s, a)
    BY DEF NoneAsked, AskedOf
  <2>4. (settling = "out" => holder = 0) /\ (settling = "in" => holder # 0)
    BY DEF SessionInv, TokenPhase
  <2> QED
    BY <2>1, <2>2, <2>3, <2>4 DEF OwnEntries
<1>8. CASE Buy
  <2>1. UNCHANGED <<server, session, cache, faults>>
    BY <1>8 DEF Buy
  <2>2. \A u \in requests' : u.how = "asked" => u \in requests
    <3> DEFINE q == Request("identity", "identify")
    <3>1. q \in Requests /\ q.how = "identify"
      BY RequestType DEF Keys
    <3>2. requests \subseteq Requests
      BY DEF SessionInv, TypeOK
    <3>3. \A r \in Requests : \A b : [r EXCEPT !.buyer = b].how = r.how
      BY DEF Requests
    <3> HIDE DEF q
    <3>4. \/ requests' = requests
          \/ \E b : requests' = requests \cup {[q EXCEPT !.buyer = b]}
          \/ \E r \in requests : \E b : r.how = "identify"
                /\ requests' = (requests \ {r}) \cup {[r EXCEPT !.buyer = b]}
      BY <1>8 DEF Buy, Start, q
    <3>5. ASSUME NEW b, requests' = requests \cup {[q EXCEPT !.buyer = b]}
          PROVE  \A u \in requests' : u.how = "asked" => u \in requests
      <4>1. [q EXCEPT !.buyer = b].how = "identify"
        BY <3>1, <3>3
      <4> QED
        BY <3>5, <4>1
    <3>6. ASSUME NEW r \in requests, NEW b, r.how = "identify",
                 requests' = (requests \ {r}) \cup {[r EXCEPT !.buyer = b]}
          PROVE  \A u \in requests' : u.how = "asked" => u \in requests
      <4>1. [r EXCEPT !.buyer = b].how = "identify"
        BY <3>2, <3>3, <3>6
      <4> QED
        BY <3>6, <4>1
    <3> QED
      BY <3>4, <3>5, <3>6
  <2> QED
    BY <1>1, <2>1, <2>2
<1>9. ASSUME NEW r \in requests, Identified(r) PROVE OwnEntries'
  <2>1. UNCHANGED <<server, session, cache, faults>> /\ requests' = Freed(requests \ {r})
    BY <1>9 DEF Identified
  <2>2. requests \ {r} \in SUBSET Requests
    BY DEF SessionInv, TypeOK
  <2> QED
    BY <1>1, <2>1, <2>2, FreedSame DEF Same
<1>10. CASE Launch
  <2>1. /\ disk' \in {disk, <<>>} /\ held' = disk'
        /\ holder' = keychain /\ settling' = "none"
        /\ UNCHANGED <<sessions, faults>>
    BY <1>10 DEF Launch, server
  <2>2. \A u \in requests' : u.how # "asked"
    <3> DEFINE q == Request("identity", "identify")
    <3>1. q \in Requests /\ q.how = "identify"
      BY RequestType DEF Keys
    <3> HIDE DEF q
    <3>2. \A g, t : [q EXCEPT !.gen = g, !.token = t].how = "identify"
      BY <3>1 DEF Requests
    <3> QED
      BY <1>10, <3>2 DEF Launch, q
  <2>3. NoneAsked(<<>>) /\ \A a : AskedOf(<<>>, a)
    BY DEF NoneAsked, AskedOf
  <2>4. keychain # 0 => AskedOf(disk, sessions[keychain])
    BY DEF SessionInv, TokenPhase, OwnEntries, TypeOK
  <2>5. keychain = 0 /\ faults = 0 => NoneAsked(disk)
    BY DEF SessionInv, TokenPhase, OwnEntries, TypeOK
  <2> QED
    BY <2>1, <2>2, <2>3, <2>4, <2>5 DEF OwnEntries
<1>11. CASE UNCHANGED vars
  BY <1>11 DEF vars, OwnEntries
<1> QED
  BY <1>3, <1>4, <1>5, <1>6, <1>7, <1>8, <1>9, <1>10, <1>11 DEF Next

(* Whoever is signed in sees only what their own sessions were answered, through any     *)
(* number of sign-outs, refusals by the server and launches, if the disk refuses once at *)
(* most. A disk that refuses twice keeps the old snapshot for the next launch.           *)
THEOREM OwnAccountOnly ==
    ASSUME MaxFaults <= 1
    PROVE  Spec => []SignedInSeesItsOwn
<1>1. Init => OwnEntries
  BY DEF Init, OwnEntries, AskedOf, NoneAsked
<1>2. SessionInv /\ OwnEntries /\ [Next]_vars => OwnEntries'
  BY StepOwn
<1>3. SessionInv /\ OwnEntries => SignedInSeesItsOwn
  <2>1. \A s, a : NoneAsked(s) => AskedOf(s, a)
    BY DEF NoneAsked, AskedOf
  <2>2. SessionInv /\ OwnEntries /\ holder # 0 => AskedOf(held, sessions[holder])
    BY <2>1 DEF SessionInv, TypeOK, TokenPhase, OwnEntries
  <2> QED
    BY <2>2 DEF SignedInSeesItsOwn, AskedOf
<1> QED
  BY <1>1, <1>2, <1>3, SessionInvariant, PTL DEF Spec
=============================================================================
