---------------------------- MODULE OfflineProofs ----------------------------
(* Theorems about OfflineVerify, for any number of rotations, lifetimes and   *)
(* clocks.  The verdicts are case analysis; what makes them right is which    *)
(* rows an account ever serves and which claims it ever signs.               *)
EXTENDS OfflineVerify, TLAPS

(* What the constants are.                                                    *)
LEMMA Bounds ==
  /\ MaxKeys \in Nat \ {0} /\ MaxTime \in Nat /\ Tolerance \in Nat
  /\ NoExpiry \notin Int /\ NoKid \notin Int
  /\ Ttls \subseteq Nat \cup {NoExpiry} /\ Drifts \subseteq Int
BY OfflineAssumption

(* A row with a key is of use, and its id is the key's or one that no key has; *)
(* a retired key is not the current one.                                     *)
RowOK(r) ==
  /\ r.key # 0 => r.ed25519 = TRUE /\ r.kid \in {r.key, WrongKid}
  /\ r.key = 0 => r.kid \in {0, WrongKid}
  /\ r.key <= signer /\ (r.retired = TRUE => r.key < signer)

(* What was signed names its signer or, without a name, the empty key.        *)
FileOK(f) ==
  f.sound = TRUE => /\ f.ascii = TRUE
                    /\ f.signer <= signer /\ f.kid \in {f.signer, EmptyKid}

OfflineInv ==
  /\ TypeOK
  /\ \A r \in served \cup held : RowOK(r)
  /\ file # NoFile => FileOK(file)

(* A row of the account, field by field.                                      *)
LEMMA RowTyped ==
  ASSUME NEW k \in 0..MaxKeys, NEW kid \in Kid, NEW a \in BOOLEAN, NEW b \in BOOLEAN
  PROVE  [key |-> k, kid |-> kid, ed25519 |-> a, retired |-> b] \in KeyRow
BY DEF KeyRow

(* An account begins with at most one key, and no file.                       *)
LEMMA Initially == Init => OfflineInv
<1> SUFFICES ASSUME Init PROVE OfflineInv
  OBVIOUS
<1> USE Bounds
<1>1. ASSUME NEW r \in served PROVE r \in KeyRow /\ RowOK(r)
  <2>1. \/ r = Published(1, 1) \/ r = Published(1, WrongKid)
        \/ r = [key |-> 0, kid |-> 0, ed25519 |-> TRUE, retired |-> FALSE]
        \/ r = [key |-> 0, kid |-> WrongKid, ed25519 |-> FALSE, retired |-> FALSE]
    BY <1>1 DEF Init
  <2>2. signer = 1 /\ 0 \in Kid /\ 1 \in Kid /\ WrongKid \in Kid
    BY DEF Init, Kid, WrongKid
  <2>3. r \in KeyRow
    <3>1. TRUE \in BOOLEAN /\ FALSE \in BOOLEAN
      OBVIOUS
    <3>2. 0 \in 0..MaxKeys /\ 1 \in 0..MaxKeys
      OBVIOUS
    <3>3. CASE r = Published(1, 1) \/ r = Published(1, WrongKid)
      BY <2>2, <3>1, <3>2, <3>3, RowTyped, Zenon DEF Published
    <3>4. CASE r = [key |-> 0, kid |-> 0, ed25519 |-> TRUE, retired |-> FALSE]
      BY <2>2, <3>1, <3>2, <3>4, RowTyped, Zenon
    <3>5. CASE r = [key |-> 0, kid |-> WrongKid, ed25519 |-> FALSE, retired |-> FALSE]
      BY <2>2, <3>1, <3>2, <3>5, RowTyped, Zenon
    <3> QED BY <2>1, <3>3, <3>4, <3>5
  <2>4. RowOK(r)
    BY <2>1, <2>2 DEF Published, RowOK
  <2> QED BY <2>3, <2>4
<1>2. signer \in Key /\ now \in 0..MaxTime
  BY DEF Init, Key
<1>3. TypeOK
  BY <1>1, <1>2 DEF Init, TypeOK
<1> QED BY <1>1, <1>3 DEF Init, OfflineInv

(* Every step keeps the invariant.                                            *)
LEMMA OfflineStep ==
  ASSUME OfflineInv, [Next]_vars
  PROVE  OfflineInv'
<1> USE Bounds
<1>1. TypeOK /\ signer \in 1..MaxKeys
  BY DEF OfflineInv, TypeOK, Key
<1>2. ASSUME signer' = signer, file # NoFile, file' = file
      PROVE  FileOK(file)'
  BY <1>2 DEF OfflineInv, FileOK
<1>3. ASSUME signer' = signer, NEW r \in served \cup held
      PROVE  RowOK(r)'
  BY <1>3 DEF OfflineInv, RowOK
<1>4. CASE Rotate
  <2>1. signer' = signer + 1 /\ signer' \in Key /\ UNCHANGED <<now, file, held, drift>>
    BY <1>1, <1>4 DEF Rotate, Key
  <2>2. ASSUME NEW r \in held PROVE RowOK(r)'
    BY <1>1, <2>1, <2>2 DEF OfflineInv, RowOK, TypeOK, KeyRow
  <2>3. ASSUME NEW r \in served' PROVE r \in KeyRow /\ RowOK(r)'
    <3>1. CASE r = Published(signer', signer')
      BY <1>1, <2>1, <3>1 DEF Published, RowOK, KeyRow, Key, Kid, WrongKid
    <3>2. ASSUME NEW o \in served, r = [o EXCEPT !.retired = TRUE]
          PROVE  r \in KeyRow /\ RowOK(r)'
      <4>1. o \in KeyRow /\ RowOK(o) /\ o.key \in 0..MaxKeys
        BY <1>1 DEF OfflineInv, TypeOK, KeyRow
      <4>2. r \in KeyRow /\ r.key = o.key /\ r.kid = o.kid /\ r.ed25519 = o.ed25519
        BY <3>2, <4>1 DEF KeyRow
      <4> QED BY <1>1, <2>1, <4>1, <4>2 DEF RowOK
    <3> QED BY <1>4, <2>3, <3>1, <3>2 DEF Rotate
  <2>4. file # NoFile => FileOK(file)'
    BY <1>1, <2>1 DEF OfflineInv, TypeOK, FileOK, File, Key
  <2>5. TypeOK'
    <3>1. named' \in BOOLEAN
      BY <1>4 DEF Rotate
    <3> QED BY <1>1, <2>1, <2>3, <3>1 DEF TypeOK
  <2> QED BY <2>1, <2>2, <2>3, <2>4, <2>5 DEF OfflineInv
<1>5. CASE Backfill
  <2>1. UNCHANGED <<signer, now, file, held, drift>> /\ named' = TRUE
    BY <1>5 DEF Backfill
  <2>2. ASSUME NEW r \in served' PROVE r \in KeyRow /\ RowOK(r)'
    <3>1. CASE r = Published(signer, signer)
      BY <1>1, <2>1, <3>1 DEF Published, RowOK, KeyRow, Key, Kid, WrongKid
    <3>2. CASE r \in served
      BY <1>1, <1>3, <2>1, <3>2 DEF TypeOK
    <3> QED BY <1>5, <2>2, <3>1, <3>2 DEF Backfill
  <2>3. TypeOK'
    <3>1. named' \in BOOLEAN
      BY <2>1
    <3> QED BY <1>1, <2>1, <2>2, <3>1 DEF TypeOK
  <2> QED BY <1>2, <1>3, <2>1, <2>2, <2>3 DEF OfflineInv
<1>6. ASSUME NEW r \in served, Withdraw(r)
      PROVE  OfflineInv'
  <2>1. UNCHANGED <<signer, named, now, file, held, drift>> /\ served' \subseteq served
    BY <1>6 DEF Withdraw
  <2>2. TypeOK'
    BY <1>1, <2>1 DEF TypeOK
  <2> QED BY <1>2, <1>3, <2>1, <2>2 DEF OfflineInv
<1>7. ASSUME NEW kind \in {"license", "machine"}, NEW scheme \in Schemes,
             NEW ttl \in Ttls, NEW sealed \in BOOLEAN, CheckOut(kind, scheme, ttl, sealed)
      PROVE  OfflineInv'
  <2> DEFINE kid == IF named THEN signer ELSE EmptyKid
             exp == IF ttl = NoExpiry THEN NoExpiry ELSE now + ttl
             f == [kind |-> kind, scheme |-> scheme, signer |-> signer, kid |-> kid,
                   exp |-> exp, sealed |-> sealed, alg |-> sealed, ascii |-> TRUE,
                   sound |-> TRUE]
  <2>1. UNCHANGED <<signer, named, served, now, held, drift>> /\ file' = f
    BY <1>7 DEF CheckOut
  <2>2. kid \in {signer, EmptyKid} /\ kid \in Kid
    BY <1>1 DEF Kid, WrongKid, EmptyKid
  <2>3. exp \in Int \cup {NoExpiry}
    <3>1. CASE ttl = NoExpiry
      BY <3>1
    <3>2. CASE ttl # NoExpiry
      <4>1. ttl \in Nat /\ now \in Nat
        BY <1>1, <3>2 DEF TypeOK
      <4> QED BY <3>2, <4>1
    <3> QED BY <3>1, <3>2
  <2> HIDE DEF kid, exp
  <2>4. f \in File /\ FileOK(f)
    BY <1>1, <2>2, <2>3 DEF File, FileOK, Key
  <2>5. TypeOK'
    BY <1>1, <2>1, <2>4 DEF TypeOK
  <2>6. FileOK(file)'
    BY <2>1, <2>4 DEF FileOK
  <2> QED BY <1>3, <2>1, <2>5, <2>6 DEF OfflineInv
<1>8. CASE Damage
  <2>1. UNCHANGED <<signer, named, served, now, held, drift>> /\ file \in File /\ FileOK(file)
    BY <1>1, <1>8 DEF Damage, TypeOK, OfflineInv
  <2>2. file' \in File /\ FileOK(file)'
    <3>1. ASSUME NEW kid \in Kid \cup {NoKid}, NEW ascii \in BOOLEAN,
                 file' = [file EXCEPT !.sound = FALSE, !.ascii = ascii, !.kid = kid]
          PROVE  file' \in File /\ FileOK(file)'
      BY <2>1, <3>1 DEF File, FileOK
    <3>2. CASE file' = [file EXCEPT !.alg = ~@]
      <4>1. (~file.alg) \in BOOLEAN
        OBVIOUS
      <4>2. /\ file' \in File /\ file'.sound = file.sound /\ file'.kid = file.kid
            /\ file'.signer = file.signer /\ file'.ascii = file.ascii
        BY <2>1, <3>2, <4>1 DEF File
      <4> QED BY <2>1, <4>2 DEF FileOK
    <3> QED BY <1>8, <3>1, <3>2 DEF Damage
  <2>3. TypeOK'
    BY <1>1, <2>1, <2>2 DEF TypeOK
  <2> QED BY <1>3, <2>1, <2>2, <2>3 DEF OfflineInv
<1>9. CASE Fetch
  <2>1. UNCHANGED <<signer, named, served, now, file, drift>> /\ held' = served
    BY <1>9 DEF Fetch
  <2>2. TypeOK'
    BY <1>1, <2>1 DEF TypeOK
  <2> QED BY <1>2, <1>3, <2>1, <2>2 DEF OfflineInv
<1>10. CASE Wait \/ UNCHANGED vars
  <2>1. UNCHANGED <<signer, named, served, file, held, drift>> /\ now' \in 0..MaxTime
    BY <1>1, <1>10 DEF Wait, vars, TypeOK
  <2>2. TypeOK'
    BY <1>1, <2>1 DEF TypeOK
  <2> QED BY <1>2, <1>3, <2>1, <2>2 DEF OfflineInv
<1> QED
  BY <1>4, <1>5, <1>6, <1>7, <1>8, <1>9, <1>10 DEF Next

(* What is served and what is signed, for all time (checkout, signing-keys).  *)
LEMMA OfflineInvariance == Spec => []OfflineInv
<1>1. Init => OfflineInv
  BY Initially
<1>2. OfflineInv /\ [Next]_vars => OfflineInv'
  BY OfflineStep
<1> QED BY <1>1, <1>2, PTL DEF Spec

(* The state of the account and of the client keeps its type.                *)
THEOREM TypeCorrect == Spec => []TypeOK
<1>1. OfflineInv => TypeOK
  BY DEF OfflineInv
<1> QED BY <1>1, OfflineInvariance, PTL

-----------------------------------------------------------------------------
(* Verdicts. *)

(* A genuine file with a name opens, or has expired.                         *)
LEMMA GenuineOpens ==
  ASSUME NEW f \in File, f.sound = TRUE, f.alg = f.sealed, f.kid # NoKid, NEW t
  PROVE  Opened(f, "right", t) \in {"verified", "expired"} /\ UnverifiedKid(f, "right") = f.kid
<1>1. Decoded(f, "right") = "payload"
  <2>1. CASE f.alg = FALSE
    BY <2>1 DEF Decoded
  <2>2. CASE f.alg = TRUE
    BY <2>2 DEF Decoded
  <2> QED BY <2>1, <2>2 DEF File
<1> QED BY <1>1 DEF Opened, UnverifiedKid

(* If the key of its signer is in the set, it verifies under that one.        *)
KeyOpens ==
  Genuine /\ Covered /\ (\E r \in held : r.key = file.signer)
  => Result("right") \in {"verified", "expired"}

(* Its row is among the candidates, and the signature verifies under it.      *)
LEMMA KeyInSet == OfflineInv => KeyOpens
<1> SUFFICES ASSUME OfflineInv, Genuine, Covered, \E r \in held : r.key = file.signer
             PROVE  Result("right") \in {"verified", "expired"}
  BY DEF KeyOpens
<1>1. file \in File /\ FileOK(file) /\ file.sound = TRUE /\ file.alg = file.sealed
  BY DEF OfflineInv, TypeOK, Genuine, File
<1>2. file.signer \in 1..MaxKeys /\ file.kid \in {file.signer, EmptyKid}
  BY <1>1 DEF FileOK, File, Key
<1>3. file.kid # NoKid
  BY <1>2, Bounds DEF EmptyKid
<1>4. PICK r \in held : r.key = file.signer
  OBVIOUS
<1>5. r \in Usable(held) /\ Verifies(r, file)
  BY <1>1, <1>2, <1>4 DEF OfflineInv, RowOK, Usable, Verifies, EmptyKid
<1>6. Result("right") = Opened(file, "right", now + drift)
  BY <1>1, <1>5 DEF Covered, Result, Verdict, FileOK
<1> QED BY <1>1, <1>3, <1>6, GenuineOpens

(* A genuine file, opened with its license key, is not called forged, however *)
(* old the key set is (_resolve_signing_key).                                *)
THEOREM NotForged == Spec => []GenuineNotForged
<1>1. OfflineInv => GenuineNotForged
  <2> SUFFICES ASSUME OfflineInv, Genuine, Covered, ~\E r \in held : r.key = file.signer,
                      \A r \in held : ~r.ed25519 \/ r.key = EmptyKid =>
                        file.kid \notin {r.kid, r.key}
               PROVE  Result("right") \in {"unknown_key", "not_published", "no_usable_key"}
    BY KeyInSet DEF GenuineNotForged, KeyOpens
  <2>1. file \in File /\ FileOK(file) /\ file.sound = TRUE /\ file.alg = file.sealed
    BY DEF OfflineInv, TypeOK, Genuine, File
  <2>2. file.signer \in 1..MaxKeys /\ file.kid \in {file.signer, EmptyKid}
    BY <2>1 DEF FileOK, File, Key
  <2>3. file.kid # NoKid
    BY <2>2, Bounds DEF EmptyKid
  <2>4. \A r \in Usable(held) : ~Verifies(r, file)
    BY DEF Usable, Verifies
  <2>5. Find(held, file.kid) = {}
    <3> SUFFICES ASSUME NEW r \in held, file.kid \in {r.kid, r.key} PROVE FALSE
      BY DEF Find
    <3>1. RowOK(r) /\ r.key # EmptyKid /\ r.key # file.signer
      BY DEF OfflineInv
    <3>2. r.kid \in {r.key, WrongKid} /\ r.key # 0
      BY <3>1 DEF RowOK, EmptyKid
    <3>3. file.kid # WrongKid
      BY <2>2, Bounds DEF WrongKid, EmptyKid
    <3> QED BY <2>2, <3>1, <3>2, <3>3
  <2>6. UnverifiedKid(file, "right") = file.kid
    BY <2>1, <2>3, GenuineOpens
  <2>7. Unresolved(held, file, "right") \in {"unknown_key", "not_published"}
    BY <2>3, <2>5, <2>6 DEF Unresolved
  <2> QED BY <2>1, <2>4, <2>7 DEF Covered, Result, Verdict, FileOK
<1> QED BY <1>1, OfflineInvariance, PTL

(* As long as the account serves the key, fetching the key set makes a genuine *)
(* file verify (signing_key_set).                                            *)
THEOREM RefetchIsRemedy == Spec => RefetchHelps
<1>1. KeyOpens' /\ [Next]_vars =>
        [ held' = served /\ held # served /\ Genuine /\ Covered
          /\ (\E r \in served : r.key = file.signer)
          => Result("right")' \in {"verified", "expired"} ]_vars
  <2> SUFFICES ASSUME KeyOpens', Next, held' = served, held # served, Genuine, Covered,
                      \E r \in served : r.key = file.signer
               PROVE  Result("right")' \in {"verified", "expired"}
    BY DEF vars
  <2>1. Fetch
    BY DEF Next, Rotate, Backfill, Damage, Wait, Withdraw, CheckOut
  <2>2. Genuine' /\ Covered' /\ \E r \in held' : r.key = file'.signer
    BY <2>1 DEF Fetch, Genuine, Covered, NoFile
  <2> QED BY <2>2 DEF KeyOpens
<1> QED BY <1>1, KeyInSet, OfflineInvariance, PTL DEF Spec, RefetchHelps

(* A damaged file is rejected before it is read, whatever it says             *)
(* (verify_with_key_set: the signature comes first).                         *)
THEOREM DamagedRejected == Spec => []DamagedNotInterpreted
<1>1. OfflineInv => DamagedNotInterpreted
  <2> SUFFICES ASSUME file # NoFile, ~file.sound, NEW cred \in Credential
               PROVE  Result(cred) \in {"forged", "unknown_key", "not_published",
                                        "no_usable_key", "not_supported", "not_applicable",
                                        "not_ascii"}
    BY DEF DamagedNotInterpreted
  <2>1. \A r \in Usable(held) : ~Verifies(r, file)
    BY DEF Verifies
  <2>2. Unresolved(held, file, cred) \in {"forged", "not_published", "unknown_key"}
    BY DEF Unresolved
  <2> QED BY <2>1, <2>2 DEF Result, Verdict
<1> QED BY <1>1, OfflineInvariance, PTL

(* The clock the client reads, and what it takes for expired.                 *)
LEMMA ClockBounds ==
  ASSUME NEW f, f.exp \in Int, NEW n \in Int, NEW d \in Int,
         d <= Tolerance, -d <= Tolerance
  PROVE  /\ Expired(f, n + d) => n > f.exp
         /\ ~Expired(f, n + d) => n <= f.exp + 2 * Tolerance
<1> DEFINE e == f.exp
<1>1. e # NoExpiry
  BY Bounds
<1>2. Expired(f, n + d) <=> (n + d) - Tolerance > e
  BY <1>1 DEF Expired
<1>3. e \in Int
  OBVIOUS
<1> HIDE DEF e
<1>4. /\ (n + d) - Tolerance > e => n > e
      /\ ~((n + d) - Tolerance > e) => n <= e + 2 * Tolerance
  BY <1>3, Bounds
<1> QED BY <1>2, <1>4 DEF e

(* With a clock off by no more than the tolerance, no valid file is rejected   *)
(* and none accepted that expired more than twice the tolerance ago            *)
(* (_enforce_expiry).                                                       *)
THEOREM ExpiryHolds == Spec => []ExpiryEnforced
<1>1. OfflineInv => ExpiryEnforced
  <2> SUFFICES ASSUME OfflineInv, file # NoFile, drift <= Tolerance, -drift <= Tolerance,
                      file.exp # NoExpiry
               PROVE  /\ Result("right") = "expired" => now > file.exp
                      /\ Result("right") = "verified" => now <= file.exp + 2 * Tolerance
    BY DEF ExpiryEnforced
  <2>1. file \in File /\ now \in Int /\ drift \in Int
    BY Bounds DEF OfflineInv, TypeOK
  <2>2. file.exp \in Int
    BY <2>1 DEF File
  <2>3. Decoded(file, "right") \in {"payload", "value_error", "invalid_tag"}
    BY DEF Decoded
  <2>4. Unresolved(held, file, "right") \notin {"expired", "verified"}
    BY DEF Unresolved
  <2>5. /\ Result("right") = "expired" => Expired(file, now + drift)
        /\ Result("right") = "verified" => ~Expired(file, now + drift)
    BY <2>3, <2>4 DEF Result, Verdict, Opened
  <2> QED BY <2>1, <2>2, <2>5, ClockBounds
<1> QED BY <1>1, OfflineInvariance, PTL

(* A file that verifies under a retired key is older than the last rotation   *)
(* (VerifiedWith.retired).                                                  *)
THEOREM RetiredIsOlder == Spec => []RetiredMeansOlder
<1>1. OfflineInv => RetiredMeansOlder
  BY DEF OfflineInv, RetiredMeansOlder, VerifiedUnder, Usable, Verifies, RowOK
<1> QED BY <1>1, OfflineInvariance, PTL
=============================================================================
