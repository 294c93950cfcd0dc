---------------------- MODULE MobileSessionProperties -----------------------
(***************************************************************************)
(* What the phone may never show or bill after its account changed.        *)
(***************************************************************************)
EXTENDS MobileSession

\* Whoever is signed in is shown what their own session was answered, even if the disk once
\* refused to be cleared and the app was relaunched on it (resourceCache.ts: one account
\* can never be shown another's trips). An identity or a confirmed purchase told by a screen
\* that outlived the sign-out is not covered: it is stored whoever is signed in.
SignedInSeesItsOwn ==
    holder # 0 =>
        \A i \in DOMAIN held :
            held[i].via = "asked" => held[i].account = sessions[holder]

\* Of one resource at most one request of revalidate is under way for those signed in,
\* however many screens ask and whatever requests of before the sign-in still return.
OneRequestPerKey ==
    \A r, q \in requests :
        r.how = "asked" /\ q.how = "asked" /\ r.key = q.key
            /\ r.gen = generation /\ q.gen = generation => r = q

\* An answer never replaces a newer answer to the same account: requests may be answered
\* late, but of one resource never out of order (revalidate shares one request).
AnswersInOrder ==
    [][generation' = generation =>
        \A i \in DOMAIN held, j \in DOMAIN held' :
            /\ held[i].key = held'[j].key /\ held[i].account = held'[j].account
            /\ held[i].via = "asked" /\ held'[j].via = "asked"
            => held'[j].version >= held[i].version]_vars

\* After a refresh failed nobody is shown as blocked until the server says so again, not
\* even after a relaunch, unless the disk refused to forget (entitlementCache.ts: never keep
\* showing anyone as blocked on the strength of an answer it could not refresh).
DroppedVerdictStaysDropped ==
    unrefreshed => ~BlockedIn(held) /\ (unsaved \/ ~BlockedIn(disk))

\* Whoever taps buy is billed as themselves, never anonymously and never as the account
\* before, through sign-outs by hand and by a 401 and relaunches at any moment, as long as
\* no identification outlives a sign-out (purchases.ts: cleared on sign-out, never trusted
\* across one). One that does is remembered for the next account.
BuyerIsBilled ==
    misbilled => crossed

-----------------------------------------------------------------------------
(* The inductive invariant behind them *)

UniqueKeys(entries) ==
    \A i, j \in DOMAIN entries : entries[i].key = entries[j].key => i = j

\* Where the token is: settled, on its way out, or on its way in.
TokenPhase ==
    /\ settling = "none" => token = keychain /\ holder = keychain
    /\ settling = "out" => token = 0 /\ holder = 0
    /\ settling = "in" => keychain = 0 /\ token # 0 /\ holder = token

\* A request carries a token that was given, and its answer what that account had.
RequestsOK ==
    \A r \in requests :
        /\ r.gen <= generation
        /\ r.token \in 0..Len(sessions)
        /\ r.answer # Waiting => r.token # 0 /\ r.answer <= version[sessions[r.token]]
        /\ r.how = "edit" => r.key = "list"
        /\ r.how = "asked" => r.key # "identity"

\* A request of the running generation has the slot of its key.
SlotsHeld ==
    \A r \in requests : r.how = "asked" /\ r.gen = generation => r.shared

\* The identification others may join is of the session in the keychain, and a buyer
\* waits for one of their own.
OwnIdentification ==
    \A r \in requests :
        /\ r.how = "identify" /\ r.shared => keychain # 0 /\ r.token = keychain
        /\ r.buyer # None => r.how = "identify" /\ r.token # 0 /\ sessions[r.token] = r.buyer

\* An id that is remembered is the one billed and that of the session in the keychain.
KnownId ==
    ~crossed /\ identifiedUserId # None =>
        /\ identifiedUserId = billed
        /\ keychain # 0 /\ sessions[keychain] = identifiedUserId

\* The snapshot is what is held, unless the last write was refused.
DiskFollows == unsaved \/ disk = held

\* What was answered is no newer than the server, nor than an answer under way.
AnswersOld ==
    /\ \A i \in DOMAIN held :
          held[i].via = "asked" => held[i].version <= version[held[i].account]
    /\ \A i \in DOMAIN disk :
          disk[i].via = "asked" => disk[i].version <= version[disk[i].account]
    /\ \A i \in DOMAIN held, r \in requests :
          /\ held[i].via = "asked" /\ r.how = "asked"
          /\ r.gen = generation /\ r.key = held[i].key /\ r.answer # Waiting
          /\ sessions[r.token] = held[i].account
          => held[i].version <= r.answer

SessionInv ==
    /\ TypeOK
    /\ UniqueKeys(held) /\ UniqueKeys(disk)
    /\ TokenPhase /\ RequestsOK /\ SlotsHeld /\ OneRequestPerKey
    /\ OwnIdentification /\ KnownId /\ BuyerIsBilled
    /\ DiskFollows /\ DroppedVerdictStaysDropped
    /\ AnswersOld

AskedOf(entries, account) ==
    \A i \in DOMAIN entries : entries[i].via = "asked" => entries[i].account = account
NoneAsked(entries) == \A i \in DOMAIN entries : entries[i].via # "asked"

\* As long as the disk refuses once at most: what is held and on disk is the account's that
\* is signed in; in between there is nothing, but for a snapshot that was not cleared, and
\* then the disk has refused already. No answer lands before the keychain call has ended.
OwnEntries ==
    /\ settling = "none" /\ holder # 0 =>
          AskedOf(held, sessions[holder]) /\ AskedOf(disk, sessions[holder])
    /\ settling = "none" /\ holder = 0 /\ faults = 0 => NoneAsked(held) /\ NoneAsked(disk)
    /\ settling = "out" =>
          /\ NoneAsked(held)
          /\ faults = 0 => NoneAsked(disk)
          /\ keychain # 0 => AskedOf(disk, sessions[keychain])
    /\ settling = "in" => NoneAsked(held) /\ NoneAsked(disk)
    /\ \A r \in requests :
          r.how = "asked" /\ r.gen = generation =>
              r.token = token /\ (settling # "none" => r.answer = Waiting)
=============================================================================
