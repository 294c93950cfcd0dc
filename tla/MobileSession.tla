--------------------------- MODULE MobileSession ----------------------------
(***************************************************************************)
(* What the phone holds of one account, and what it lets go of when the    *)
(* account changes: the resource cache in memory and on disk, the requests *)
(* under way, the session token in the keychain, and the id RevenueCat     *)
(* bills.  Requests are answered in any order, fail, or are refused with a *)
(* 401, which signs out; the app may be killed and launched at any moment. *)
(* Of the server a request sees only its account's data, as a version; a   *)
(* verdict is blocked in every odd one.                                    *)
(***************************************************************************)
EXTENDS Integers, Sequences, FiniteSets, SequencesExt

CONSTANTS
    Accounts,
    None,
    MAX_CACHE_ENTRIES,
    MaxSessions,    \* bound: sign-ins
    MaxGenerations, \* bound: resets of the cache and launches
    MaxVersion,     \* bound: changes of an account's data on the server
    MaxRequests,    \* bound: requests a user or a screen starts
    MaxUnderWay,    \* bound: requests under way once it starts one
    MaxFaults       \* bound: refusals by the disk or the keychain

ASSUME NoneAssumption == None \notin Accounts
ASSUME CacheSizeAssumption == MAX_CACHE_ENTRIES \in Nat \ {0}
ASSUME SessionLimitAssumption ==
    /\ MaxSessions \in Nat \ {0} /\ MaxGenerations \in Nat /\ MaxVersion \in Nat
    /\ MaxRequests \in Nat /\ MaxUnderWay \in Nat /\ MaxFaults \in Nat

VARIABLES
    sessions,    \* the account of each session the server ever gave this phone
    live,        \* the sessions the server still accepts
    version,     \* the server's data of each account
    token,       \* the session whose token the keychain will hold; 0 for none
    keychain,    \* the one it holds now
    settling,    \* the keychain call setToken or clearToken waits for
    holder,      \* the session the screens are for; 0 once signed out
    held,        \* entries of resourceCache.ts, the least recently written first
    disk,        \* the snapshot on disk
    generation,  \* generation of resourceCache.ts, counted on through launches
    requests,    \* under way: requests, and logins to RevenueCat
    identifiedUserId, \* purchases.ts
    billed,      \* the app user id of the RevenueCat SDK
    started, faults,
    unsaved,     \* history: the last write of the disk was refused
    unrefreshed, \* history: the last refresh of the verdict failed
    misbilled,   \* history: somebody bought, and somebody else was billed
    crossed      \* history: an identification outlived a sign-out

vars == <<sessions, live, version, token, keychain, settling, holder, held, disk, generation,
          requests, identifiedUserId, billed, started, faults, unsaved, unrefreshed, misbilled,
          crossed>>

server == <<sessions, live, version>>
session == <<token, keychain, settling, holder>>
cache == <<held, disk, generation, unsaved>>
purchaser == <<identifiedUserId, billed, misbilled, crossed>>

Keys == {"list", "verdict", "identity"}

\* The list a failed load leaves where none is held: no version of the server's.
Empty == -1

Entries == [key : Keys, account : Accounts, version : {Empty} \cup 0..MaxVersion,
            via : {"asked", "told"}]

\* The answer of a request is the version served, once it is.
Waiting == -1

\* revalidate asks; a screen or a poll tells what it fetched itself; an edit rewrites what
\* is held once the server took it; identify asks for the id to bill and logs in with it.
\* `shared` is the request of its key in `inflight`, or the one in `identifying`.
Requests == [key : Keys, how : {"asked", "told", "edit", "identify"},
             gen : 0..MaxGenerations, token : 0..MaxSessions,
             answer : {Waiting} \cup 0..MaxVersion,
             shared : BOOLEAN, buyer : Accounts \cup {None}]

TypeOK ==
    /\ sessions \in Seq(Accounts) /\ Len(sessions) \in 1..MaxSessions
    /\ live \subseteq DOMAIN sessions
    /\ version \in [Accounts -> 0..MaxVersion]
    /\ {token, keychain, holder} \subseteq 0..Len(sessions)
    /\ settling \in {"none", "out", "in"}
    /\ held \in Seq(Entries) /\ Len(held) <= MAX_CACHE_ENTRIES
    /\ disk \in Seq(Entries) /\ Len(disk) <= MAX_CACHE_ENTRIES
    /\ generation \in 0..MaxGenerations
    /\ requests \subseteq Requests
    /\ identifiedUserId \in Accounts \cup {None} /\ billed \in Accounts \cup {None}
    /\ started \in 0..MaxRequests /\ faults \in 0..MaxFaults
    /\ {unsaved, unrefreshed, misbilled, crossed} \subseteq BOOLEAN

-----------------------------------------------------------------------------
(* The cache *)

Entitled(v) == v % 2 = 0

BlockedIn(entries) ==
    \E i \in DOMAIN entries :
        entries[i].key = "verdict" /\ ~Entitled(entries[i].version)

\* A key has at most one entry.
Without(entries, k) ==
    IF \E i \in DOMAIN entries : entries[i].key = k
    THEN RemoveAt(entries, CHOOSE i \in DOMAIN entries : entries[i].key = k)
    ELSE entries

\* evict: the oldest go first.
EvictedTo(entries, size) ==
    IF Len(entries) > size THEN SubSeq(entries, Len(entries) - size + 1, Len(entries))
    ELSE entries

\* Mutant: one entry too many is kept.
EvictedLate(entries) == EvictedTo(entries, MAX_CACHE_ENTRIES + 1)

Evicted(entries) == EvictedTo(entries, MAX_CACHE_ENTRIES)

\* setCached: a value identical to what is held changes nothing, not even its age.
Stored(entries, e) ==
    IF \E i \in DOMAIN entries :
          /\ entries[i].key = e.key
          /\ entries[i].account = e.account /\ entries[i].version = e.version
    THEN entries
    ELSE Evicted(Append(Without(entries, e.key), e))

\* A write of the disk goes through, or is refused and leaves the file as it was.
Save(entries) ==
    \/ disk' = entries /\ unsaved' = FALSE /\ UNCHANGED faults
    \/ faults < MaxFaults /\ faults' = faults + 1 /\ unsaved' = TRUE /\ UNCHANGED disk


Hold(entries) ==
    /\ held' = entries
    /\ IF entries = held THEN UNCHANGED <<disk, unsaved, faults>> ELSE Save(entries)
    /\ UNCHANGED generation

\* resetResourceCache: memory and disk, and no request under way is joined any more.
Unshared(rs) ==
    {IF r.how = "asked" THEN [r EXCEPT !.shared = FALSE] ELSE r : r \in rs}

\* identifyPurchaser ends: whichever identification is in `identifying`, it is let go of.
Freed(rs) ==
    {IF r.how = "identify" THEN [r EXCEPT !.shared = FALSE] ELSE r : r \in rs}

Reset ==
    /\ generation < MaxGenerations
    /\ generation' = generation + 1
    /\ held' = <<>>
    /\ Save(<<>>)

-----------------------------------------------------------------------------
(* Requests *)

Request(k, how) ==
    [key |-> k, how |-> how, gen |-> generation, token |-> token, answer |-> Waiting,
     shared |-> how \in {"asked", "identify"}, buyer |-> None]

Start(r) ==
    /\ started < MaxRequests /\ started' = started + 1
    /\ Cardinality(requests) < MaxUnderWay
    /\ requests' = requests \cup {r}

\* Mutant: every call asks for itself.
NeverJoined(k) == FALSE

\* Concurrent calls of revalidate for one key share a request.
Joined(k) == \E r \in requests : r.how = "asked" /\ r.key = k /\ r.shared

Ask(k) ==
    /\ ~Joined(k)
    /\ Start(Request(k, "asked"))
    /\ UNCHANGED <<server, session, cache, purchaser, faults, unrefreshed>>

\* useIdentity fetches past revalidate, and so does the poll after a purchase.
Fetch(k) ==
    /\ holder # 0
    /\ Start(Request(k, "told"))
    /\ UNCHANGED <<server, session, cache, purchaser, faults, unrefreshed>>

\* A trip is deleted or the units are changed.
Edit ==
    /\ holder # 0
    /\ Start(Request("list", "edit"))
    /\ UNCHANGED <<server, session, cache, purchaser, faults, unrefreshed>>

\* The keychain serves its calls in the order they are made: a token is read after what was
\* written before.
TokenRead(r) == r.gen < generation \/ settling = "none"

\* The server answers from the account of the session: an edit changes its data, and so
\* may a webhook, the clock or another device have since the last answer. Who somebody is
\* does not change.
Serve(r) ==
    /\ r.key # "identity" /\ r.answer = Waiting /\ TokenRead(r) /\ r.token \in live
    /\ \E new \in version[sessions[r.token]]..MaxVersion :
          /\ r.how = "edit" => new > version[sessions[r.token]]
          /\ requests' = (requests \ {r}) \cup {[r EXCEPT !.answer = new]}
          /\ version' = [version EXCEPT ![sessions[r.token]] = new]
    /\ UNCHANGED <<sessions, live, session, cache, purchaser, started, faults, unrefreshed>>

\* A session the server no longer accepts may have been answered before.
HasAnswer(r) ==
    IF r.key = "identity"
    THEN TokenRead(r) /\ (r.token \in live \/ (r.token # 0 /\ r.gen < generation))
    ELSE r.answer >= 0

Answer(r) == [key |-> r.key, account |-> sessions[r.token],
              version |-> IF r.key = "identity" THEN 0 ELSE r.answer,
              via |-> IF r.how = "asked" THEN "asked" ELSE "told"]

\* Mutant: the generation is not looked at.
AlwaysWanted(r) == TRUE

\* An answer from before the account changed is not stored.
Wanted(r) == r.gen = generation

\* Mutant: the slot of the key is freed whoever has it.
FinishedFreeingTheKey(r) ==
    {IF q.how = "asked" /\ q.key = r.key THEN [q EXCEPT !.shared = FALSE] ELSE q :
        q \in requests \ {r}}

\* The slot is freed by the request that has it.
Finished(r) == requests \ {r}

Arrive(r) ==
    /\ r.how = "asked" /\ HasAnswer(r)
    /\ requests' = Finished(r)
    /\ Hold(IF Wanted(r) THEN Stored(held, Answer(r)) ELSE held)
    /\ unrefreshed' = (unrefreshed /\ ~(r.key = "verdict" /\ Wanted(r)))
    /\ UNCHANGED <<server, session, purchaser, started>>

\* An edit rewrites the list if one is held, whoever's it is.
Edited(entries, v) ==
    LET i == CHOOSE i \in DOMAIN entries : entries[i].key = "list"
    IN  IF \E j \in DOMAIN entries : entries[j].key = "list"
        THEN Stored(entries, [entries[i] EXCEPT !.version = v, !.via = "told"])
        ELSE entries

\* A screen stores what it fetched, unless it was closed meanwhile (Fail); a sign-out closes
\* some screens only when the next sign-in ends. The poll takes any verdict of a subscriber,
\* one at the usage cap and so blocked included.
Tell(r) ==
    /\ r.how \in {"told", "edit"} /\ HasAnswer(r)
    /\ requests' = requests \ {r}
    /\ \/ r.how = "edit" /\ Hold(Edited(held, r.answer)) /\ UNCHANGED unrefreshed
       \/ /\ r.how = "told"
          /\ Hold(Stored(held, Answer(r)))
          /\ unrefreshed' = (unrefreshed /\ r.key # "verdict")
    /\ UNCHANGED <<server, session, purchaser, started>>

\* A failed refresh of the verdict drops a held one that blocks, whoever's it is.
Unblocked(entries) == IF BlockedIn(entries) THEN Without(entries, "verdict") ELSE entries

\* load of trips/index.tsx failed: an empty list where none is held, whoever is signed in
\* by now, if anybody. It is nobody's; the last session's account stands in.
EmptyListed(entries) ==
    IF \E i \in DOMAIN entries : entries[i].key = "list" THEN entries
    ELSE Stored(entries, [key |-> "list", account |-> Last(sessions), version |-> Empty,
                          via |-> "told"])

\* No answer, a body `accept` refuses, or nobody left to take it.
Fail(r) ==
    /\ requests' = (IF r.how = "identify" THEN Freed(requests \ {r}) ELSE Finished(r))
    /\ \/ /\ r.how = "asked" /\ r.key = "verdict"
          /\ Hold(Unblocked(held)) /\ unrefreshed' = TRUE
       \/ /\ r.how = "asked" /\ r.key = "list"
          /\ Hold(EmptyListed(held)) /\ UNCHANGED unrefreshed
       \/ /\ ~(r.how = "asked" /\ r.key = "verdict")
          /\ Hold(held) /\ UNCHANGED unrefreshed
    /\ UNCHANGED <<server, session, purchaser, started>>

-----------------------------------------------------------------------------
(* Signing in and out *)

SignedIn == holder # 0 /\ settling = "none"

\* clearToken, by hand or by apiFetch on a 401: which token was refused is not asked. Calls
\* overlap, and their keychain calls end as one; a 401 that comes while setToken waits for
\* the keychain is taken once it has ended.
ClearToken ==
    /\ settling # "in" /\ settling' = "out"
    /\ Reset
    /\ token' = 0 /\ holder' = 0
    /\ UNCHANGED <<sessions, version, keychain, purchaser, started>>

SignOut ==
    /\ SignedIn
    /\ ClearToken /\ UNCHANGED live
    /\ requests' = Unshared(requests)
    /\ UNCHANGED unrefreshed

\* A session that expired, or whose account was deleted, is refused from then on.
Reject(r) ==
    /\ r.answer = Waiting /\ TokenRead(r)
    /\ live' = live \ {r.token}
    /\ ClearToken
    /\ requests' = Unshared(requests \ {r})
    /\ unrefreshed' = (unrefreshed \/ r.key = "verdict")

\* setToken: the cache is emptied again, then the keychain is written.
SignIn(a) ==
    /\ holder = 0 /\ settling = "none" /\ settling' = "in"
    /\ Len(sessions) < MaxSessions
    /\ sessions' = Append(sessions, a)
    /\ live' = live \cup {Len(sessions')}
    /\ Reset
    /\ requests' = Unshared(requests)
    /\ token' = Len(sessions') /\ holder' = Len(sessions')
    /\ UNCHANGED <<version, keychain, purchaser, started, unrefreshed>>

\* Mutant: the id is remembered across the sign-out.
SignedOutButRemembered ==
    /\ billed' = None
    /\ requests' = Freed(requests)
    /\ UNCHANGED <<identifiedUserId, misbilled, crossed>>

\* The keychain call ends and the listeners of onTokenChange run: purchases.ts forgets
\* the id it bills and logs out, or asks for the new one.
SignedOutOfStore ==
    /\ identifiedUserId' = None /\ billed' = None
    /\ requests' = Freed(requests)
    /\ UNCHANGED <<misbilled, crossed>>

Identifying == \E r \in requests : r.how = "identify" /\ r.shared

Identify ==
    /\ IF identifiedUserId # None \/ Identifying THEN UNCHANGED requests
       ELSE requests' = requests \cup {Request("identity", "identify")}
    /\ UNCHANGED purchaser

Settle ==
    /\ settling # "none" /\ settling' = "none"
    /\ keychain' = token
    /\ IF settling = "out" THEN SignedOutOfStore ELSE Identify
    /\ UNCHANGED <<server, token, holder, cache, started, faults, unrefreshed>>

-----------------------------------------------------------------------------
(* Buying *)

\* purchasePackage bills whoever the SDK is logged in as.
Charge(buyer, who) == misbilled' = (misbilled \/ buyer \notin {None, who})

\* requirePurchaserId: at once if an id is known, else when the identification ends.
Buy ==
    /\ SignedIn /\ \A r \in requests : r.buyer = None
    /\ LET buyer == sessions[holder]
       IN  \/ /\ identifiedUserId # None
              /\ Charge(buyer, billed)
              /\ UNCHANGED <<requests, started>>
           \/ /\ identifiedUserId = None /\ ~Identifying
              /\ Start([Request("identity", "identify") EXCEPT !.buyer = buyer])
              /\ UNCHANGED misbilled
           \/ /\ identifiedUserId = None
              /\ \E r \in requests :
                    /\ r.how = "identify" /\ r.shared
                    /\ requests' = (requests \ {r}) \cup {[r EXCEPT !.buyer = buyer]}
              /\ UNCHANGED <<misbilled, started>>
    /\ UNCHANGED <<server, session, cache, identifiedUserId, billed, crossed, faults,
                   unrefreshed>>

\* identifyPurchaser learned the id, logged the SDK in, and remembers it.
Identified(r) ==
    /\ r.how = "identify" /\ HasAnswer(r)
    /\ LET account == sessions[r.token]
       IN  /\ identifiedUserId' = account /\ billed' = account
           /\ Charge(r.buyer, account)
           /\ crossed' = (crossed \/ keychain = 0 \/ sessions[keychain] # account)
    /\ requests' = Freed(requests \ {r})
    /\ UNCHANGED <<server, session, cache, started, faults, unrefreshed>>

-----------------------------------------------------------------------------
(* The app's end *)

\* The app is killed and launched: what a module holds is gone, the snapshot is loaded, and
\* a session the keychain has is taken up. iOS may have purged
\* the snapshot.
Launch ==
    /\ generation < MaxGenerations /\ generation' = generation + 1
    /\ disk' \in {disk, <<>>} /\ held' = disk' /\ unsaved' = FALSE
    /\ unrefreshed' = (unrefreshed /\ ~unsaved)
    /\ token' = keychain /\ holder' = keychain /\ settling' = "none"
    /\ requests' = (IF keychain = 0 THEN {} ELSE
                       {[Request("identity", "identify") EXCEPT !.gen = generation',
                                                               !.token = keychain]})
    /\ identifiedUserId' = None
    /\ UNCHANGED <<server, keychain, billed, misbilled, crossed, started, faults>>

\* The app was just installed and its user has signed in.
Init ==
    /\ sessions \in {<<a>> : a \in Accounts} /\ live = {1}
    /\ version = [a \in Accounts |-> 0]
    /\ token = 1 /\ keychain = 1 /\ holder = 1 /\ settling = "none"
    /\ held = <<>> /\ disk = <<>> /\ generation = 0
    /\ requests = {} /\ identifiedUserId = None /\ billed = None
    /\ started = 0 /\ faults = 0 /\ unsaved = FALSE /\ unrefreshed = FALSE
    /\ misbilled = FALSE /\ crossed = FALSE

Next ==
    \/ \E k \in {"list", "verdict"} : Ask(k)
    \/ \E k \in {"verdict", "identity"} : Fetch(k)
    \/ Edit
    \/ \E r \in requests : Serve(r) \/ Arrive(r) \/ Tell(r) \/ Fail(r) \/ Reject(r)
    \/ \E r \in requests : Identified(r)
    \/ SignOut \/ Settle \/ Buy \/ Launch
    \/ \E a \in Accounts : SignIn(a)

Spec == Init /\ [][Next]_vars
=============================================================================
