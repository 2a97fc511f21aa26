---------------------------- MODULE Fingerprint ----------------------------
(***************************************************************************)
(* machine_fingerprint (src/tamga/fingerprint.py): how the components that   *)
(* identify a machine are spelled before they are hashed.  A seat is taken   *)
(* per fingerprint, so two installations on one machine must agree on it,    *)
(* however they read the components, and two machines must not.             *)
(*                                                                         *)
(* A string is a sequence of code points.  SHA-256 is taken to tell its      *)
(* inputs apart and stands for them.  Two installations put their lists of   *)
(* components together one by one.                                         *)
(***************************************************************************)
EXTENDS Integers, SequencesExt

CONSTANTS
  Items,         \* the components that callers pass: pairs, or something else
  MaxItems,      \* bound: components of one installation
  NotText,       \* an argument that is no str
  NoSequence     \* an item that is a str, or cannot be iterated over

VARIABLES left, right    \* the components of two installations

vars == <<left, right>>

LastCodePoint == 1114111
CodePoint == 0..LastCodePoint

(* A pair may have any number of entries; those that are text are strings. *)
ASSUME ItemsAssumption ==
  Items \subseteq Seq(Seq(CodePoint) \cup {NotText}) \cup {NoSequence}

Text(x) == x # NotText

-----------------------------------------------------------------------------
(* The code points that matter. *)
Tab == 9
LF == 10
VT == 11
FF == 12
CR == 13
US == 31   \* FINGERPRINT_SEPARATOR
Space == 32
Equals == 61

(* Mutated: str.strip() with no argument. *)
UnicodeWhitespace == (9..13) \cup (28..32) \cup {133, 160}

(* ASCII_WHITESPACE *)
Whitespace == {Space, Tab, CR, LF, VT, FF}

(* FINGERPRINT_DOMAIN, in short. *)
Domain == <<118, 49>>

(* value.strip(ASCII_WHITESPACE) *)
Trimmed(v) ==
  LET kept == {i \in DOMAIN v : v[i] \notin Whitespace}
  IN  IF kept = {} THEN <<>> ELSE SubSeq(v, Min(kept), Max(kept))

(* Mutated: any printable character will do. *)
LabelPrintable(l) ==
  /\ Text(l) /\ l # <<>>
  /\ \A i \in DOMAIN l : l[i] \in 33..126

(* _validate_label: a non-empty run of printable ASCII without "=". *)
LabelAccepted(l) ==
  /\ Text(l) /\ l # <<>>
  /\ \A i \in DOMAIN l : l[i] \in 33..126 /\ l[i] # Equals

(* _validate_value: no control character once it is trimmed. *)
ValueAccepted(v) ==
  /\ Text(v)
  /\ \A i \in DOMAIN Trimmed(v) : Trimmed(v)[i] > 31 /\ Trimmed(v)[i] # 127

(* _pairs: exactly two entries each.  A mapping is the list of its items.     *)
Paired(components) ==
  \A i \in DOMAIN components :
    components[i] # NoSequence /\ Len(components[i]) = 2

LabelsDiffer(components) ==
  \A i, j \in DOMAIN components : i # j => components[i][1] # components[j][1]

(* component.encode("utf-8") raises for a surrogate on its own. *)
Encodable(v) == \A i \in DOMAIN v : v[i] \notin 55296..57343

(* canonical_form raises, a ValueError in each case, unless ... *)
Accepted(components) ==
  /\ components # <<>>
  /\ Paired(components)
  /\ \A i \in DOMAIN components :
       /\ LabelAccepted(components[i][1])
       /\ ValueAccepted(components[i][2]) /\ Encodable(Trimmed(components[i][2]))
  /\ LabelsDiffer(components)

(* UTF-8: a byte that leads, and up to three that continue it. *)
Continued(c) == 128 + (c % 64)

Utf8Bytes(c) ==
  IF c < 128 THEN <<c>>
  ELSE IF c < 2048 THEN <<192 + c \div 64, Continued(c)>>
  ELSE IF c < 65536
       THEN <<224 + c \div 4096, Continued(c \div 64), Continued(c)>>
  ELSE <<240 + (c \div 4096) \div 64, Continued(c \div 4096), Continued(c \div 64),
         Continued(c)>>

Utf8(s) == FlattenSeq([i \in DOMAIN s |-> Utf8Bytes(s[i])])

(* Bytewise: at the first difference the smaller byte, or the end of the string. *)
Before(a, b) ==
  \E i \in DOMAIN b :
    /\ \A j \in 1..(i - 1) : j \in DOMAIN a /\ a[j] = b[j]
    /\ i \in DOMAIN a => a[i] < b[i]

Encoded(component) == component[1] \o <<Equals>> \o Trimmed(component[2])

(* Mutated: the components stay in the caller's order. *)
Unsorted(components) == [i \in DOMAIN components |-> Encoded(components[i])]

(* encoded.sort: an order of the indices with no smaller one after a larger. *)
Sorted(components) ==
  LET encoded == [i \in DOMAIN components |-> Encoded(components[i])]
      order == CHOOSE p \in Bijection(DOMAIN encoded, DOMAIN encoded) :
                 \A i, j \in DOMAIN encoded :
                   i < j => ~Before(Utf8(encoded[p[j]]), Utf8(encoded[p[i]]))
  IN  [i \in DOMAIN encoded |-> encoded[order[i]]]

(* FINGERPRINT_SEPARATOR.join *)
Canonical(components) ==
  LET parts == Sorted(components)
  IN  Domain \o FlattenSeq([i \in DOMAIN parts |-> <<US>> \o parts[i]])

MachineFingerprint(components) == Utf8(Canonical(components))

-----------------------------------------------------------------------------
Init == left = <<>> /\ right = <<>>

Next ==
  \E item \in Items :
    \/ Len(left) < MaxItems /\ left' = Append(left, item) /\ UNCHANGED right
    \/ Len(right) < MaxItems /\ right' = Append(right, item) /\ UNCHANGED left

Spec == Init /\ [][Next]_vars

-----------------------------------------------------------------------------
(* Properties. *)

(* What a machine is: which label has which value, the whitespace at the two   *)
(* ends aside.  Stated without the operators of the code.                   *)
Spaces(s) == \A i \in DOMAIN s : s[i] \in {9, 10, 11, 12, 13, 32}

Core(v) ==
  CHOOSE s \in SubSeqs(v) :
    /\ \E p \in Prefixes(v), q \in Suffixes(v) :
         Spaces(p) /\ Spaces(q) /\ v = p \o s \o q
    /\ s # <<>> => ~Spaces(<<Head(s)>>) /\ ~Spaces(<<Last(s)>>)

Machine(components) ==
  {<<components[i][1], Core(components[i][2])>> : i \in DOMAIN components}

(* Both installations get a fingerprint. *)
Both == Accepted(left) /\ Accepted(right)

(* Order and surrounding whitespace do not cost a second seat (the module's   *)
(* "order-independent" and "whitespace-equivalent").                        *)
SameMachineSameSeat ==
  Both /\ Machine(left) = Machine(right) =>
    MachineFingerprint(left) = MachineFingerprint(right)

(* Two machines do not share a seat: no component forges the boundary of      *)
(* another one, and nothing is repaired on the way (the module's "rejections   *)
(* raise and are never silently repaired").                                 *)
DifferentMachinesApart ==
  Both /\ MachineFingerprint(left) = MachineFingerprint(right) =>
    Machine(left) = Machine(right)
=============================================================================
