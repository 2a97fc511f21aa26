--------------------------- MODULE OfflineVerify ---------------------------
(***************************************************************************)
(* Offline files and key rotation: an account checks out signed files and   *)
(* rotates its signing key; a client that holds some files and a key set    *)
(* fetched or pinned earlier verifies them with verify_with_key_set         *)
(* (src/tamga/checkout/key_set.py, license_file.py, machine_file.py).       *)
(*                                                                         *)
(* Keys are numbered as the account makes them.  A key id is a hash of the   *)
(* public key, so the number stands for it, too; 0 is the id of the empty    *)
(* key.  A signature is modelled by what it establishes: it verifies under   *)
(* the key that made it as long as the bytes it covers are untouched.       *)
(***************************************************************************)
EXTENDS Integers

CONSTANTS
  MaxKeys,     \* bound: keys the account makes
  MaxTime,     \* bound: the time the model runs
  Ttls,        \* lifetimes of the files checked out, NoExpiry among them
  NoExpiry,    \* a file without an exp claim
  Tolerance,   \* CLOCK_SKEW_TOLERANCE_SECONDS
  Drifts,      \* what the client's clock may be ahead (or, below 0, behind)
  NoKid        \* None

Key == 1..MaxKeys
EmptyKid == 0                        \* UNBACKFILLED_ACCOUNT_KEY_ID
WrongKid == MaxKeys + 1              \* no key has it
Kid == 0..WrongKid

(* A row of GET /signing-keys.  key 0 is an unpopulated column: it does not   *)
(* decode.  The published id may be wrong; the one computed from the key not. *)
KeyRow == [key : 0..MaxKeys, kid : Kid, ed25519 : BOOLEAN, retired : BOOLEAN]

(* Only Ed25519 keys are published; "rsa" stands for the other schemes a     *)
(* machine file can have, "jwt" for the rejected one.                        *)
Schemes == {"ed25519", "rsa", "jwt"}

File ==
  [kind   : {"license", "machine"},
   scheme : Schemes,           \* the license's scheme, known from elsewhere
   signer : Key,
   kid    : Kid \cup {NoKid},  \* the claim in the payload, if it can be read
   exp    : Int \cup {NoExpiry},
   sealed : BOOLEAN,           \* is the payload encrypted?
   alg    : BOOLEAN,           \* does "alg", which is not signed, say it is?
   ascii  : BOOLEAN,           \* is the payload ASCII text?
   sound  : BOOLEAN]           \* are payload and signature as issued?

(* The license key (and fingerprint) the caller passes. *)
Credential == {"right", "wrong", "none"}

ASSUME OfflineAssumption ==
  /\ MaxKeys \in Nat \ {0} /\ MaxTime \in Nat
  /\ NoExpiry \notin Int /\ NoKid \notin Int
  /\ Ttls \subseteq Nat \cup {NoExpiry}
  /\ Tolerance \in Nat
  /\ Drifts \subseteq Int

VARIABLES
  signer,     \* the account's current key
  named,      \* is account.ed25519_public_key set?
  served,     \* the rows GET /signing-keys answers with
  now,
  file,       \* the file the client has, or NoFile
  held,       \* the client's key set
  drift       \* the client's clock minus the true time

vars == <<signer, named, served, now, file, held, drift>>

NoFile == [kind |-> "none"]

TypeOK ==
  /\ signer \in Key /\ named \in BOOLEAN
  /\ served \subseteq KeyRow /\ held \subseteq KeyRow
  /\ now \in 0..MaxTime
  /\ file \in File \cup {NoFile}
  /\ drift \in Drifts

-----------------------------------------------------------------------------
(* The key set. *)

(* Mutated: a row whose id is not the computed one is dropped. *)
UsableConsistent(keys) ==
  {r \in keys : r.ed25519 /\ r.key # EmptyKid /\ r.kid = r.key}

(* usable_keys *)
Usable(keys) == {r \in keys : r.ed25519 /\ r.key # EmptyKid}

(* find(kid): among all the rows, under either spelling. *)
Find(keys, kid) == {r \in keys : kid \in {r.kid, r.key}}

(* ed25519_verify of the file's payload under a row's key. *)
Verifies(r, f) == f.sound /\ r.key = f.signer

-----------------------------------------------------------------------------
(* The files. *)

(* _decode_payload, and json.loads of what it returns.  Of a payload in the    *)
(* clear that is taken to be sealed, a machine file misses the nonce, which is *)
(* in a field of its own there, and a license file its tag.                   *)
Decoded(f, cred) ==
  IF ~f.alg THEN IF f.sealed THEN "value_error" ELSE "payload"
  ELSE IF cred = "none" \/ (~f.sealed /\ f.kind = "machine") THEN "value_error"
  ELSE IF f.sealed /\ f.sound /\ cred = "right" THEN "payload"
  ELSE "invalid_tag"

(* _unverified_kid: None when the payload or its claims cannot be read. *)
UnverifiedKid(f, cred) ==
  IF Decoded(f, cred) = "payload" THEN f.kid ELSE NoKid

(* Mutated: the tolerance is left out. *)
ExpiredSharp(f, t) == f.exp # NoExpiry /\ t >= f.exp

(* _enforce_expiry *)
Expired(f, t) == f.exp # NoExpiry /\ t - Tolerance > f.exp

(* _verify, once the signature has passed.  The suffix of a machine file's    *)
(* "alg" is compared with the scheme; it is taken to be right here.           *)
Opened(f, cred, t) ==
  IF Decoded(f, cred) # "payload" THEN Decoded(f, cred)
  ELSE IF f.kid = NoKid THEN "value_error"
  ELSE IF Expired(f, t) THEN "expired"
  ELSE "verified"

(* Mutated: a key the set does not hold is not told apart. *)
UnresolvedForged(keys, f, cred) == "forged"

(* _resolve_signing_key when no key verifies: which error it is.              *)
Unresolved(keys, f, cred) ==
  LET claimed == UnverifiedKid(f, cred)
  IN  IF claimed = NoKid THEN "forged"
      ELSE IF Find(keys, claimed) # {} THEN "forged"
      ELSE IF claimed = EmptyKid THEN "not_published"
      ELSE "unknown_key"

(* Mutated: the payload is read before the signature is checked. *)
VerdictEager(keys, f, cred, t) ==
  IF f.kind = "machine" /\ f.scheme = "jwt" THEN "not_supported"
  ELSE IF f.kind = "machine" /\ f.scheme # "ed25519" THEN "not_applicable"
  ELSE IF ~f.ascii THEN "not_ascii"
  ELSE IF Usable(keys) = {} THEN "no_usable_key"
  ELSE IF Opened(f, cred, t) # "verified" THEN Opened(f, cred, t)
  ELSE IF \E r \in Usable(keys) : Verifies(r, f) THEN "verified"
  ELSE Unresolved(keys, f, cred)

(* verify_with_key_set of either kind of file.  A payload that is not ASCII    *)
(* is a UnicodeEncodeError, whatever the set holds.                          *)
Verdict(keys, f, cred, t) ==
  IF f.kind = "machine" /\ f.scheme = "jwt" THEN "not_supported"
  ELSE IF f.kind = "machine" /\ f.scheme # "ed25519" THEN "not_applicable"
  ELSE IF ~f.ascii THEN "not_ascii"
  ELSE IF Usable(keys) = {} THEN "no_usable_key"
  ELSE IF \E r \in Usable(keys) : Verifies(r, f) THEN Opened(f, cred, t)
  ELSE Unresolved(keys, f, cred)

(* Mutated: whichever key comes first is reported. *)
VerifiedUnderFirst(keys, f) == Usable(keys)

(* The keys a verified file can be reported to have verified under. *)
VerifiedUnder(keys, f) == {r \in Usable(keys) : Verifies(r, f)}

-----------------------------------------------------------------------------
(* The account. *)

Published(k, kid) == [key |-> k, kid |-> kid, ed25519 |-> TRUE, retired |-> FALSE]

(* Before the patch an account that never rotated served no key, and may have *)
(* had none in its own row either; afterwards each account serves its key.     *)
(* The rows of no use: an unpopulated one, or one of another algorithm.        *)
Init ==
  /\ signer = 1
  /\ named \in BOOLEAN
  /\ served \in {{}}
       \cup {{Published(1, kid)} : kid \in {1, WrongKid}}
       \cup {{[key |-> 0, kid |-> 0, ed25519 |-> TRUE, retired |-> FALSE]}}
       \cup {{Published(1, 1),
              [key |-> 0, kid |-> WrongKid, ed25519 |-> FALSE, retired |-> FALSE]}}
  /\ (\E r \in served : r.key = 1) => named
  /\ now = 0
  /\ file = NoFile
  /\ held = {}
  /\ drift \in Drifts

Rotate ==
  /\ signer < MaxKeys
  /\ signer' = signer + 1 /\ named' = TRUE
  /\ served' = {[r EXCEPT !.retired = TRUE] : r \in served}
               \cup {Published(signer', signer')}
  /\ UNCHANGED <<now, file, held, drift>>

(* The patched server publishes the key of every account. *)
Backfill ==
  /\ ~\E r \in served : r.key = signer
  /\ named' = TRUE
  /\ served' = {r \in served : r.key # EmptyKid} \cup {Published(signer, signer)}
  /\ UNCHANGED <<signer, now, file, held, drift>>

(* An operator withdraws a key that is compromised. *)
Withdraw(r) ==
  /\ r.retired
  /\ served' = served \ {r}
  /\ UNCHANGED <<signer, named, now, file, held, drift>>

(* check_out: a fresh file takes the place of the one the client had. *)
CheckOut(kind, scheme, ttl, sealed) ==
  /\ kind = "license" => scheme = "ed25519"
  /\ file' = [kind |-> kind, scheme |-> scheme, signer |-> signer,
              kid |-> IF named THEN signer ELSE EmptyKid,
              exp |-> IF ttl = NoExpiry THEN NoExpiry ELSE now + ttl,
              sealed |-> sealed, alg |-> sealed, ascii |-> TRUE, sound |-> TRUE]
  /\ UNCHANGED <<signer, named, served, now, held, drift>>

(* The file is damaged where it is stored: the payload, which may then claim  *)
(* anything if it is in the clear, or "alg", which nothing protects.          *)
Damage ==
  /\ file # NoFile
  /\ \/ \E kid \in Kid \cup {NoKid}, ascii \in BOOLEAN :
          /\ file.sealed \/ ~ascii => kid = NoKid
          /\ file' = [file EXCEPT !.sound = FALSE, !.ascii = ascii, !.kid = kid]
     \/ file' = [file EXCEPT !.alg = ~@]
  /\ UNCHANGED <<signer, named, served, now, held, drift>>

(* Mutated: an answer without data becomes a set that holds None. *)
FetchNone ==
  /\ held' = IF served = {} THEN {NoKid} ELSE served
  /\ UNCHANGED <<signer, named, served, now, file, drift>>

(* signing_key_set(), at a build or at run time. *)
Fetch ==
  /\ held' = served
  /\ UNCHANGED <<signer, named, served, now, file, drift>>

Wait ==
  /\ now < MaxTime /\ now' = now + 1
  /\ UNCHANGED <<signer, named, served, file, held, drift>>

Next ==
  \/ Rotate \/ Backfill \/ Damage \/ Fetch \/ Wait
  \/ \E r \in served : Withdraw(r)
  \/ \E kind \in {"license", "machine"}, scheme \in Schemes,
        ttl \in Ttls, sealed \in BOOLEAN : CheckOut(kind, scheme, ttl, sealed)

Spec == Init /\ [][Next]_vars

-----------------------------------------------------------------------------
(* Properties of a verification the client may run at any time. *)

Result(cred) == Verdict(held, file, cred, now + drift)

Genuine == file # NoFile /\ file.sound /\ file.alg = file.sealed
Covered == file.kind = "license" \/ file.scheme = "ed25519"

(* A genuine file, opened with the right license key, is never called forged, *)
(* however old the set is and however often the account rotated: it verifies,  *)
(* has expired, or its key is said to be missing, and that only when it is.    *)
(* The one exception is a file that names the same id as a row without a usable *)
(* key, as the unpopulated row has.                                          *)
GenuineNotForged ==
  Genuine /\ Covered
  /\ (\A r \in held : ~r.ed25519 \/ r.key = EmptyKid => file.kid \notin {r.kid, r.key}) =>
    IF \E r \in held : r.key = file.signer
    THEN Result("right") \in {"verified", "expired"}
    ELSE Result("right") \in {"unknown_key", "not_published", "no_usable_key"}

(* Refetching the key set is the remedy it is documented to be: as long as the *)
(* account still serves the key, fetching makes a genuine file verify, even    *)
(* when its row carries a wrong id.                                           *)
RefetchHelps ==
  [][ held' = served /\ held # served /\ Genuine /\ Covered
      /\ (\E r \in served : r.key = file.signer)
      => Result("right")' \in {"verified", "expired"} ]_vars

(* Nothing is read out of a damaged file: whatever it claims, it is rejected   *)
(* for its signature, its key or its alphabet, never for its expiry or what it  *)
(* says.                                                                     *)
DamagedNotInterpreted ==
  file # NoFile /\ ~file.sound =>
    \A cred \in Credential :
      Result(cred) \in {"forged", "unknown_key", "not_published", "no_usable_key",
                        "not_supported", "not_applicable", "not_ascii"}

(* In true time: a client whose clock is off by no more than the tolerance     *)
(* never rejects a file that is still valid, and accepts none that expired     *)
(* more than twice the tolerance ago.                                         *)
ExpiryEnforced ==
  file # NoFile /\ drift <= Tolerance /\ -drift <= Tolerance /\ file.exp # NoExpiry =>
    /\ Result("right") = "expired" => now > file.exp
    /\ Result("right") = "verified" => now <= file.exp + 2 * Tolerance

(* A file that verified under a retired key was issued before the last rotation. *)
RetiredMeansOlder ==
  file # NoFile /\ Result("right") = "verified" =>
    \A r \in VerifiedUnder(held, file) : r.retired => file.signer < signer

(* What _resolve_signing_key documents of InvalidSignature.                   *)
ForgedMeansForged ==
  \A cred \in Credential : file # NoFile /\ Result(cred) = "forged" => ~Genuine
=============================================================================
