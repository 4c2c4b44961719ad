---------------------------- MODULE ViewExchange ----------------------------
(***************************************************************************)
(* The exchange of declaration views and objections between the owner of a *)
(* declaration and its readers (examples/local_release/exchange.py, used by*)
(* DocumentSession.observe of scenario.py).  The owner exports a view, a   *)
(* reader holds what it receives against a view pinned out of band and     *)
(* writes an objection under its key, the owner attributes the objection.  *)
(*                                                                         *)
(* The owner's declaration may be edited after its session sealed it, the  *)
(* messages damaged, pieced together, read again, in any order or never.   *)
(* Hashes and MACs are ideal.                                              *)
(***************************************************************************)
EXTENDS Naturals, FiniteSets

CONSTANTS
  Version,     \* declarations
  Shown,       \* what a declaration shows in its view: [Version -> conditions]
  Author,      \* readers, each with a key of its own
  Text,        \* what an objection may say
  MaxDamage,   \* bound: messages damaged
  MaxMessages, \* bound: messages on the wire
  MaxWritten   \* bound: objections written

VARIABLES
  declaration,  \* the object the owner exports from; an edit changes it
  pin,          \* the view of the session's own declaration
  told,         \* [Author -> the view pinned by the reader]
  seen,         \* [Author -> the view it accepted last, or none]
  wire,         \* views and objections sent
  damage,
  written,      \* objections written, each with the view its author had pinned
  accepted      \* objections attributed, each with the owner's view

vars == <<declaration, pin, told, seen, wire, damage, written, accepted>>

-----------------------------------------------------------------------------
(* Messages *)

\* projection_hash: over the binding and the conditions.
HashOf(binding, conditions) == <<binding, conditions>>

View(binding, conditions) ==
  [kind |-> "declaration_projection", binding |-> binding, conditions |-> conditions,
   hash |-> HashOf(binding, conditions)]

\* export_projection: the binding holds the hashes of the whole declaration.
ExportOf(version) == View(version, Shown[version])

NoView == [kind |-> "NONE"]

Body(binding, hash, author, text) ==
  [binding |-> binding, projection_hash |-> hash, author_id |-> author, text |-> text]

Mac(key, body) == [key |-> key, over |-> body]

\* make_objection
Objection(view, author, text) ==
  LET body == Body(view.binding, view.hash, author, text) IN
  [kind |-> "projection_objection", body |-> body, mac |-> Mac(author, body)]

Views == {m \in wire : m.kind = "declaration_projection"}
Objections == {m \in wire : m.kind = "projection_objection"}

Sends(m) ==
  /\ Cardinality(wire \cup {m}) <= MaxMessages
  /\ wire' = wire \cup {m}

-----------------------------------------------------------------------------
(* The owner *)

\* Somebody edits the declaration that the session holds.
Edit ==
  /\ declaration' \in Version \ {declaration}
  /\ UNCHANGED <<pin, told, seen, wire, damage, written, accepted>>

\* A new session seals the declaration as it stands and pins its view.
NewSession ==
  /\ pin' = ExportOf(declaration)
  /\ UNCHANGED <<declaration, told, seen, wire, damage, written, accepted>>

Export ==
  /\ Sends(ExportOf(declaration))
  /\ UNCHANGED <<declaration, pin, told, seen, damage, written, accepted>>

Attributable(m) ==
  /\ m.body.binding = pin.binding
  /\ m.body.projection_hash = pin.hash
  /\ m.mac = Mac(m.body.author_id, m.body)

\* read_objection: the verdict names the author, and is not executable.
Attribute(m) ==
  /\ Attributable(m)
  /\ accepted' = accepted \cup {[body |-> m.body, view |-> pin]}
  /\ UNCHANGED <<declaration, pin, told, seen, wire, damage, written>>

-----------------------------------------------------------------------------
(* A reader *)

\* The reader is told, out of band, which view to expect.
Pin(a, v) ==
  /\ told' = [told EXCEPT ![a] = ExportOf(v)]
  /\ seen' = [seen EXCEPT ![a] = NoView]
  /\ UNCHANGED <<declaration, pin, wire, damage, written, accepted>>

SoundView(m) == m.hash = HashOf(m.binding, m.conditions)

\* Mutation: the conditions are held against the pinned ones, not the whole view.
MatchesConditions(m, expected) == m.conditions = expected.conditions

Matches(m, expected) == m = expected

\* read_projection
Read(a, m) ==
  /\ SoundView(m)
  /\ Matches(m, told[a])
  /\ seen' = [seen EXCEPT ![a] = m]
  /\ UNCHANGED <<declaration, pin, told, wire, damage, written, accepted>>

Object(a, text) ==
  /\ Cardinality(written) < MaxWritten
  /\ seen[a] # NoView
  /\ Sends(Objection(seen[a], a, text))
  /\ written' = written \cup {[body |-> Body(seen[a].binding, seen[a].hash, a, text),
                               view |-> told[a]]}
  /\ UNCHANGED <<declaration, pin, told, seen, damage, accepted>>

-----------------------------------------------------------------------------
(* The wire *)

\* A field is changed, the hash computed anew, one message's part put in another.
DamagedViews ==
  {View(v, c) : v \in Version, c \in {Shown[w] : w \in Version}}
  \cup (UNION {{[m EXCEPT !.binding = v], [m EXCEPT !.conditions = Shown[v]]} :
                 m \in Views, v \in Version})

DamagedBodies(b) ==
  {[b EXCEPT !.binding = v] : v \in Version}
  \cup {[b EXCEPT !.projection_hash = HashOf(v, Shown[v])] : v \in Version}
  \cup {[b EXCEPT !.binding = v, !.projection_hash = HashOf(v, Shown[v])] : v \in Version}
  \cup {[b EXCEPT !.author_id = a] : a \in Author}
  \cup {[b EXCEPT !.text = t] : t \in Text}

DamagedObjections ==
  {[m EXCEPT !.mac = o.mac] : m \in Objections, o \in Objections}
  \cup (UNION {{[m EXCEPT !.body = b] : b \in DamagedBodies(m.body)} : m \in Objections})

Damage ==
  /\ damage < MaxDamage
  /\ damage' = damage + 1
  /\ \E m \in (DamagedViews \cup DamagedObjections) \ wire : Sends(m)
  /\ UNCHANGED <<declaration, pin, told, seen, written, accepted>>

Init ==
  /\ declaration \in Version
  /\ pin = ExportOf(declaration)
  /\ told \in [Author -> {ExportOf(v) : v \in Version}]
  /\ seen = [a \in Author |-> NoView]
  /\ wire = {} /\ damage = 0
  /\ written = {} /\ accepted = {}

Next ==
  \/ Edit
  \/ NewSession
  \/ Export
  \/ \E m \in Objections : Attribute(m)
  \/ \E a \in Author, v \in Version : Pin(a, v)
  \/ \E a \in Author, m \in Views : Read(a, m)
  \/ \E a \in Author, text \in Text : Object(a, text)
  \/ Damage

Spec == Init /\ [][Next]_vars

-----------------------------------------------------------------------------
(* Properties *)

\* An objection that the owner attributes was written, word for word, by the author
\* it names, and the author then expected the very view that the owner sealed: the two
\* speak of one declaration, though it was edited and views went out in between.
AttributedIsSaid == accepted \subseteq written
=============================================================================
