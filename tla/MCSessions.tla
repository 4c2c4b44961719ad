----------------------------- MODULE MCSessions -----------------------------
(***************************************************************************)
(* The release of the Spectrum sources and the exchange of declaration     *)
(* views, in one instance for TLC.  The two sessions have no state in      *)
(* common, so no step of one can disturb the other, and a behaviour is     *)
(* that of the one whose turn it is.                                       *)
(***************************************************************************)
EXTENDS SpectrumRelease, TLC

CONSTANTS Version, Shown, Author, Text, MaxDamage, MaxMessages, MaxWritten,
          v1, v2, v3, a1, a2

VARIABLES declaration, pin, told, seen, wire, damage, written, accepted,
          turn  \* the session of this behaviour

Exchange == INSTANCE ViewExchange
exchange == <<declaration, pin, told, seen, wire, damage, written, accepted>>

\* Two declarations that show the same conditions, and one that shows others.
ThreeVersions == {v1, v2, v3}
ShownOfThree == (v1 :> "WIDE") @@ (v2 :> "WIDE") @@ (v3 :> "NARROW")
TwoAuthors == {a1, a2}

Alike == Permutations({a1, a2}) \cup Permutations({v1, v2})

ASSUME ViewAssumption ==
  /\ DOMAIN Shown = Version
  /\ MaxDamage \in Nat /\ MaxMessages \in Nat /\ MaxWritten \in Nat

SessionsInit ==
  /\ turn \in {"release", "exchange"}
  /\ Init
  /\ Exchange!Init

SessionsNext ==
  \/ turn = "release" /\ Next /\ UNCHANGED <<exchange, turn>>
  \/ turn = "exchange" /\ Exchange!Next /\ UNCHANGED <<vars, turn>>

SessionsSpec == SessionsInit /\ [][SessionsNext]_<<vars, exchange, turn>>

\* An objection that the owner attributes was written, word for word, by the author
\* it names, who then expected the very view that the owner sealed.
AttributedIsSaid == Exchange!AttributedIsSaid
=============================================================================
