------------------------- MODULE PluginConfigProofs -------------------------
(***************************************************************************)
(* Theorems about PluginConfig, for any number of processes, connections,  *)
(* collections and edits.                                                  *)
(***************************************************************************)
EXTENDS PluginConfig, TLAPS

-----------------------------------------------------------------------------
(***************************************************************************)
(* The operations on a configuration                                       *)
(***************************************************************************)

\* Each name has at most one connection and one selection.
Distinct(c) ==
    /\ \A conn, other \in c.connections : conn.name = other.name => conn = other
    /\ \A s, t \in c.selections : s.name = t.name => s = t

Dangling(c) == References(c) \ NamesOf(c)

\* d is a configuration that is made of c, and names these connections; all but the given
\* parts are those of c.
Becomes(c, d, parts, names) ==
    /\ d \in Configs
    /\ Distinct(c) => Distinct(d)
    /\ Dangling(d) \subseteq Dangling(c) \cup (names \ NamesOf(c))
    /\ \A part \in Parts \ parts : Part(d, part) = Part(c, part)

LEMMA DefaultFits == Default \in Configs /\ Distinct(Default) /\ Dangling(Default) = {}
BY DEF Default, Configs, Distinct, Dangling, References, NamesOf

LEMMA AddFits ==
    ASSUME NEW c \in Configs, NEW conn \in Connections
    PROVE  Becomes(c, AddConnection(c, conn), {conn.name}, {})
<1> DEFINE d == AddConnection(c, conn)
<1>1. /\ d.connections = {other \in c.connections : other.name # conn.name} \cup {conn}
      /\ d.active = c.active
      /\ d.selections = c.selections
      /\ d \in Configs
  BY DEF AddConnection, Configs
<1> HIDE DEF d
<1>2. Distinct(c) => Distinct(d)
  BY <1>1 DEF Distinct
<1>3. Dangling(d) \subseteq Dangling(c)
  <2>1. NamesOf(c) \subseteq NamesOf(d)
    BY <1>1 DEF NamesOf
  <2> QED
    BY <1>1, <2>1 DEF Dangling, References
<1>4. ASSUME NEW part \in Parts \ {conn.name}
      PROVE  Part(d, part) = Part(c, part)
  <2>1. {o \in d.connections : o.name = part} = {o \in c.connections : o.name = part}
    BY <1>1
  <2> QED
    BY <1>1, <2>1 DEF Part
<1> QED
  BY <1>1, <1>2, <1>3, <1>4 DEF Becomes, d

LEMMA RemoveFits ==
    ASSUME NEW c \in Configs, NEW name \in Names
    PROVE  Becomes(c, RemoveConnection(c, name),
                   {name} \cup (IF c.active = name THEN {None} ELSE {}), {})
<1> DEFINE d == RemoveConnection(c, name)
<1>1. /\ d.connections = {conn \in c.connections : conn.name # name}
      /\ d.active = IF c.active = name THEN None ELSE c.active
      /\ d.selections = {s \in c.selections : s.name # name}
      /\ d \in Configs
  BY DEF RemoveConnection, Configs
<1> HIDE DEF d
<1>2. Distinct(c) => Distinct(d)
  BY <1>1 DEF Distinct
<1>3. Dangling(d) \subseteq Dangling(c)
  <2>1. \A n \in NamesOf(c) : n # name => n \in NamesOf(d)
    BY <1>1 DEF NamesOf
  <2>2. References(d) \subseteq References(c) \ {name}
    BY <1>1, NoneAssumption DEF References
  <2> QED
    BY <2>1, <2>2 DEF Dangling
<1>4. ASSUME NEW part \in Parts, part # name, part = None => c.active # name
      PROVE  Part(d, part) = Part(c, part)
  <2>1. /\ {o \in d.connections : o.name = part} = {o \in c.connections : o.name = part}
        /\ {s \in d.selections : s.name = part} = {s \in c.selections : s.name = part}
    BY <1>1, <1>4
  <2> QED
    BY <1>1, <1>4, <2>1 DEF Part
<1> QED
  BY <1>1, <1>2, <1>3, <1>4 DEF Becomes, d

LEMMA ActivateFits ==
    ASSUME NEW c \in Configs, NEW name \in Names \cup {None}
    PROVE  Becomes(c, [c EXCEPT !.active = name], {None}, {name} \ {None})
<1> DEFINE d == [c EXCEPT !.active = name]
<1>1. /\ d.connections = c.connections
      /\ d.active = name
      /\ d.selections = c.selections
      /\ d \in Configs
  BY DEF Configs
<1> HIDE DEF d
<1>2. Distinct(c) => Distinct(d)
  BY <1>1 DEF Distinct
<1>3. Dangling(d) \subseteq Dangling(c) \cup (({name} \ {None}) \ NamesOf(c))
  BY <1>1 DEF Dangling, References, NamesOf
<1>4. \A part \in Parts \ {None} : Part(d, part) = Part(c, part)
  BY <1>1 DEF Part
<1> QED
  BY <1>1, <1>2, <1>3, <1>4 DEF Becomes, d

LEMMA SelectFits ==
    ASSUME NEW c \in Configs, NEW name \in Names, NEW ids \in SUBSET Collections
    PROVE  Becomes(c, SetSelectedCollections(c, name, ids), {name},
                   IF ids = {} THEN {} ELSE {name})
<1> DEFINE new == IF ids = {} THEN {} ELSE {[name |-> name, ids |-> ids]}
           d == SetSelectedCollections(c, name, ids)
<1>1. /\ new \subseteq Selections
      /\ \A s \in new : s.name = name /\ ids # {}
      /\ \A s, t \in new : s = t
  BY DEF Selections
<1>2. /\ d.connections = c.connections
      /\ d.active = c.active
      /\ d.selections = {s \in c.selections : s.name # name} \cup new
      /\ d \in Configs
  BY <1>1 DEF SetSelectedCollections, Configs
<1> HIDE DEF d, new
<1>3. Distinct(c) => Distinct(d)
  BY <1>1, <1>2 DEF Distinct
<1>4. Dangling(d) \subseteq Dangling(c) \cup ((IF ids = {} THEN {} ELSE {name}) \ NamesOf(c))
  BY <1>1, <1>2 DEF Dangling, References, NamesOf
<1>5. ASSUME NEW part \in Parts \ {name}
      PROVE  Part(d, part) = Part(c, part)
  <2>1. {s \in d.selections : s.name = part} = {s \in c.selections : s.name = part}
    BY <1>1, <1>2
  <2> QED
    BY <1>2, <2>1 DEF Part
<1> QED
  BY <1>2, <1>3, <1>4, <1>5 DEF Becomes, d

LEMMA FromDictFits ==
    ASSUME NEW c \in Configs
    PROVE  Becomes(c, FromDict(c), {}, {})
<1> DEFINE strip(conn) == [conn EXCEPT !.url = Stripped[@]]
           d == FromDict(c)
<1>1. \A conn \in Connections :
        /\ strip(conn) \in Connections
        /\ strip(conn).name = conn.name
        /\ Stripped[strip(conn).url] = Stripped[conn.url]
  BY UrlsAssumption DEF Connections
<1>2. c.connections \subseteq Connections
  BY DEF Configs
<1>3. /\ d.connections = {strip(conn) : conn \in c.connections}
      /\ d.active = c.active
      /\ d.selections = c.selections
  BY DEF FromDict, Configs
<1>4. {strip(conn) : conn \in c.connections} \subseteq Connections
  BY <1>1, <1>2
<1>5. d \in Configs
  BY <1>4 DEF FromDict, Configs
<1> HIDE DEF d, strip
<1>6. \A conn \in c.connections :
        /\ strip(conn).name = conn.name
        /\ Stripped[strip(conn).url] = Stripped[conn.url]
  BY <1>1, <1>2
<1>7. NamesOf(d) = NamesOf(c)
  <2>1. ASSUME NEW conn \in c.connections
        PROVE  conn.name \in NamesOf(d)
    <3>1. strip(conn) \in d.connections
      BY <1>3, Zenon
    <3> QED
      BY <1>6, <3>1 DEF NamesOf
  <2>2. ASSUME NEW o \in d.connections
        PROVE  o.name \in NamesOf(c)
    <3>1. PICK conn \in c.connections : o = strip(conn)
      BY <1>3, Zenon
    <3> QED
      BY <1>6, <3>1 DEF NamesOf
  <2> QED
    BY <2>1, <2>2 DEF NamesOf
<1>8. Distinct(c) => Distinct(d)
  <2> SUFFICES ASSUME Distinct(c)
               PROVE  \A conn, other \in d.connections : conn.name = other.name => conn = other
    BY <1>3 DEF Distinct
  <2> SUFFICES ASSUME NEW a \in c.connections, NEW b \in c.connections,
                      strip(a).name = strip(b).name
               PROVE  strip(a) = strip(b)
    BY <1>3, Zenon
  <2> QED
    BY <1>6 DEF Distinct
<1>9. ASSUME NEW part \in Parts
      PROVE  Part(d, part) = Part(c, part)
  <2>1. {Stripped[conn.url] : conn \in {o \in d.connections : o.name = part}}
          = {Stripped[conn.url] : conn \in {o \in c.connections : o.name = part}}
    <3>1. ASSUME NEW o \in d.connections, o.name = part
          PROVE  \E conn \in c.connections : conn.name = part /\ Stripped[conn.url] = Stripped[o.url]
      <4>1. PICK conn \in c.connections : o = strip(conn)
        BY <1>3, Zenon
      <4> QED
        BY <1>6, <3>1, <4>1
    <3>2. ASSUME NEW conn \in c.connections, conn.name = part
          PROVE  \E o \in d.connections : o.name = part /\ Stripped[o.url] = Stripped[conn.url]
      <4>1. strip(conn) \in d.connections
        BY <1>3, Zenon
      <4> QED
        BY <1>6, <3>2, <4>1
    <3> QED
      BY <3>1, <3>2
  <2> QED
    BY <1>3, <2>1 DEF Part
<1> QED
  BY <1>3, <1>5, <1>7, <1>8, <1>9 DEF Becomes, Dangling, References, d

-----------------------------------------------------------------------------
(***************************************************************************)
(* Types and references                                                    *)
(***************************************************************************)

Fits(c) == Distinct(c) /\ Dangling(c) \subseteq unchecked

LEMMA FitsIsConsistent == \A c : Fits(c) <=> Consistent(c)
BY DEF Fits, Distinct, Dangling, Consistent

PluginInv ==
    /\ TypeOK
    /\ \A p \in Processes : Fits(memory[p])
    /\ file \notin Unreadable => Fits(file)

LEMMA LoadFits ==
    ASSUME PluginInv
    PROVE  LoadConfig \in Configs /\ Fits(LoadConfig)
<1>1. CASE file \in Unreadable
  BY <1>1, DefaultFits DEF LoadConfig, Fits
<1>2. CASE file \notin Unreadable
  <2>1. file \in Configs /\ Fits(file)
    BY <1>2 DEF PluginInv, TypeOK
  <2>2. LoadConfig = FromDict(file)
    BY <1>2 DEF LoadConfig
  <2> QED
    BY <2>1, <2>2, FromDictFits DEF Becomes, Fits
<1> QED
  BY <1>1, <1>2

\* An edit whose parts and names are those in which its result differs.
SoundEdit(p, parts, names, d) ==
    /\ Edit(p, parts, names, d)
    /\ parts \subseteq Parts /\ names \subseteq Names
    /\ Becomes(memory[p], d, parts, names)

LEMMA EditsAreSound ==
    ASSUME TypeOK, NEW p \in Processes
    PROVE  /\ \A conn \in Connections : Add(p, conn) =>
                 \E parts, names, d : SoundEdit(p, parts, names, d)
           /\ \A name \in Names : Remove(p, name) =>
                 \E parts, names, d : SoundEdit(p, parts, names, d)
           /\ \A name \in Names \cup {None} : Activate(p, name) =>
                 \E parts, names, d : SoundEdit(p, parts, names, d)
           /\ \A name \in Names : \A ids \in SUBSET Collections : Select(p, name, ids) =>
                 \E parts, names, d : SoundEdit(p, parts, names, d)
<1>1. memory[p] \in Configs
  BY DEF TypeOK
<1>2. ASSUME NEW conn \in Connections, Add(p, conn)
      PROVE  SoundEdit(p, {conn.name}, {}, AddConnection(memory[p], conn))
  BY <1>1, <1>2, AddFits DEF Add, SoundEdit, Parts, Connections
<1>3. ASSUME NEW name \in Names, Remove(p, name)
      PROVE  SoundEdit(p, {name} \cup (IF memory[p].active = name THEN {None} ELSE {}), {},
                       RemoveConnection(memory[p], name))
  BY <1>1, <1>3, RemoveFits DEF Remove, SoundEdit, Parts
<1>4. ASSUME NEW name \in Names \cup {None}, Activate(p, name)
      PROVE  SoundEdit(p, {None}, {name} \ {None}, [memory[p] EXCEPT !.active = name])
  BY <1>1, <1>4, ActivateFits DEF Activate, SoundEdit, Parts
<1>5. ASSUME NEW name \in Names, NEW ids \in SUBSET Collections, Select(p, name, ids)
      PROVE  SoundEdit(p, {name}, IF ids = {} THEN {} ELSE {name},
                       SetSelectedCollections(memory[p], name, ids))
  BY <1>1, <1>5, SelectFits DEF Select, SoundEdit, Parts
<1> QED
  BY <1>2, <1>3, <1>4, <1>5

\* Every step is one of these.
LEMMA StepCases ==
    ASSUME TypeOK, [Next]_vars
    PROVE  \/ \E p \in Processes : Load(p) \/ BeginSave(p) \/ EndSave(p) \/ Crash(p)
           \/ \E p \in Processes : \E parts, names, d : SoundEdit(p, parts, names, d)
           \/ UNCHANGED vars
BY EditsAreSound DEF Next

LEMMA PluginInvInit == Init => PluginInv
<1> SUFFICES ASSUME Init
             PROVE  PluginInv
  OBVIOUS
<1>1. TypeOK
  <2>1. edits \in 0 .. MaxEdits
    BY MaxEditsAssumption DEF Init
  <2>2. edited \in [Processes -> SUBSET Parts]
    BY DEF Init
  <2> QED
    BY <2>1, <2>2, DefaultFits DEF Init, TypeOK, Unreadable
<1>2. \A p \in Processes : Fits(memory[p])
  BY DefaultFits DEF Init, Fits
<1> QED
  BY <1>1, <1>2 DEF Init, PluginInv, Unreadable

LEMMA PluginInvNext == PluginInv /\ [Next]_vars => PluginInv'
<1> SUFFICES ASSUME PluginInv, [Next]_vars
             PROVE  PluginInv'
  OBVIOUS
<1>1. TypeOK
  BY DEF PluginInv
<1>2. ASSUME NEW p \in Processes, Load(p)
      PROVE  PluginInv'
  BY <1>2, LoadFits DEF Load, PluginInv, TypeOK, Fits
<1>3. ASSUME NEW p \in Processes, BeginSave(p)
      PROVE  PluginInv'
  BY <1>3 DEF BeginSave, Truncated, PluginInv, TypeOK, Unreadable, Fits
<1>4. ASSUME NEW p \in Processes, EndSave(p)
      PROVE  PluginInv'
  <2>1. file' = memory[p] \/ file' = Garbage
    BY <1>4 DEF EndSave, Overwritten
  <2> QED
    BY <1>4, <2>1 DEF EndSave, PluginInv, TypeOK, Unreadable, Fits
<1>5. ASSUME NEW p \in Processes, Crash(p)
      PROVE  PluginInv'
  <2>1. file' = file \/ file' = Garbage
    BY <1>5 DEF Crash
  <2> QED
    BY <1>5, <2>1, DefaultFits DEF Crash, PluginInv, TypeOK, Unreadable, Fits
<1>6. ASSUME NEW p \in Processes, NEW parts, NEW names, NEW d, SoundEdit(p, parts, names, d)
      PROVE  PluginInv'
  <2>1. /\ memory' = [memory EXCEPT ![p] = d] /\ d \in Configs
        /\ unchecked' = unchecked \cup (names \ NamesOf(memory[p]))
        /\ file' = file
    BY <1>6 DEF SoundEdit, Edit, Becomes
  <2>2. Fits(d)'
    BY <1>6, <2>1 DEF SoundEdit, Becomes, PluginInv, Fits
  <2>3. TypeOK'
    BY <1>1, <1>6, MaxEditsAssumption DEF SoundEdit, Becomes, Edit, TypeOK
  <2>4. \A c : Fits(c) => Fits(c)'
    BY <2>1 DEF Fits
  <2>5. \A q \in Processes : Fits(memory[q])'
    BY <1>1, <2>1, <2>2 DEF PluginInv, TypeOK, Fits
  <2> QED
    BY <2>1, <2>3, <2>5 DEF PluginInv, Fits
<1>7. CASE UNCHANGED vars
  BY <1>7 DEF vars, PluginInv, TypeOK, Fits
<1> QED
  BY <1>1, <1>2, <1>3, <1>4, <1>5, <1>6, <1>7, StepCases

LEMMA PluginInvAlways == Spec => []PluginInv
BY PluginInvInit, PluginInvNext, PTL DEF Spec

\* Memories and the file hold configurations, or the file what is none.
THEOREM PluginTypeCorrect == Spec => []TypeOK
<1>1. PluginInv => TypeOK
  BY DEF PluginInv
<1> QED
  BY <1>1, PluginInvAlways, PTL

\* A connection that is referred to and not there was named by a caller when it was not: no
\* order of edits, saves, loads and crashes of several processes makes such a reference.
THEOREM DanglingReferencesWereMade == Spec => []DanglingWasMade
<1>1. PluginInv => DanglingWasMade
  BY FitsIsConsistent DEF PluginInv, DanglingWasMade
<1> QED
  BY <1>1, PluginInvAlways, PTL

-----------------------------------------------------------------------------
(***************************************************************************)
(* Saving and loading                                                      *)
(***************************************************************************)

\* A save under way finds the file as it left it, or another met it; between saves the file
\* is what was saved last, unless that save was disturbed.
FileInv ==
    /\ \A p, q \in Saving : p # q => disturbed
    /\ Saving # {} /\ file # Empty => disturbed
    /\ Saving = {} /\ ~disturbed => file = saved \/ (file = Absent /\ saved = Default)

LEMMA FileInvInit == Init => FileInv
BY DEF Init, FileInv, Saving

LEMMA FileInvNext == TypeOK /\ FileInv /\ [Next]_vars => FileInv'
<1> SUFFICES ASSUME TypeOK, FileInv, [Next]_vars
             PROVE  FileInv'
  OBVIOUS
<1> USE DEF FileInv
<1>1. ASSUME Saving' = Saving, UNCHANGED <<file, saved, disturbed>>
      PROVE  FileInv'
  BY <1>1
<1>2. ASSUME NEW p \in Processes, Load(p)
      PROVE  FileInv'
  <2>1. Saving' = Saving
    BY <1>2 DEF Load, Saving, TypeOK
  <2> QED
    BY <1>1, <1>2, <2>1 DEF Load
<1>3. ASSUME NEW p \in Processes, BeginSave(p)
      PROVE  FileInv'
  <2>1. Saving' = Saving \cup {p}
    BY <1>3 DEF BeginSave, Saving, TypeOK
  <2> QED
    BY <1>3, <2>1 DEF BeginSave, Truncated
<1>4. ASSUME NEW p \in Processes, EndSave(p)
      PROVE  FileInv'
  <2>1. p \in Saving /\ Saving' = Saving \ {p}
    BY <1>4 DEF EndSave, Saving, TypeOK
  <2>2. disturbed' = disturbed /\ saved' = memory[p]
    BY <1>4 DEF EndSave
  <2>3. Saving' # {} => disturbed
    BY <2>1
  <2>4. ~disturbed => file' = memory[p]
    BY <1>4, <2>1 DEF EndSave, Overwritten
  <2> QED
    BY <2>1, <2>2, <2>3, <2>4
<1>5. ASSUME NEW p \in Processes, Crash(p)
      PROVE  FileInv'
  <2>1. CASE pc[p] = "saving"
    BY <1>5, <2>1 DEF Crash
  <2>2. CASE pc[p] # "saving"
    <3>1. Saving' = Saving
      BY <1>5, <2>2 DEF Crash, Saving, TypeOK
    <3> QED
      BY <1>1, <1>5, <2>2, <3>1 DEF Crash
  <2> QED
    BY <2>1, <2>2
<1>6. ASSUME NEW p \in Processes, NEW parts, NEW names, NEW d, SoundEdit(p, parts, names, d)
      PROVE  FileInv'
  BY <1>1, <1>6 DEF SoundEdit, Edit, Saving
<1>7. CASE UNCHANGED vars
  BY <1>1, <1>7 DEF vars, Saving
<1> QED
  BY <1>2, <1>3, <1>4, <1>5, <1>6, <1>7, StepCases

LEMMA FileInvReloads == TypeOK /\ FileInv => SavedIsReloaded
<1> SUFFICES ASSUME TypeOK, FileInv, Saving = {}, ~disturbed
             PROVE  Equivalent(LoadConfig, saved)
  BY DEF SavedIsReloaded
<1>1. saved \in Configs
  BY DEF TypeOK
<1>2. CASE file = saved
  <2>1. LoadConfig = FromDict(saved)
    BY <1>1, <1>2, UnreadableAssumption DEF LoadConfig
  <2> QED
    BY <1>1, <2>1, FromDictFits DEF Becomes, Equivalent
<1>3. CASE file = Absent /\ saved = Default
  BY <1>3 DEF LoadConfig, Unreadable, Equivalent
<1> QED
  BY <1>2, <1>3 DEF FileInv

LEMMA FileInvAlways == Spec => []FileInv
<1>1. PluginInv => TypeOK
  BY DEF PluginInv
<1> QED
  BY <1>1, FileInvInit, FileInvNext, PluginInvAlways, PTL DEF Spec

\* Loading finds what was saved last, by whichever process, unless a save is under way or
\* the last one ended early or met another.
THEOREM SavedConfigIsReloaded == Spec => []SavedIsReloaded
<1>1. PluginInv => TypeOK
  BY DEF PluginInv
<1> QED
  BY <1>1, FileInvReloads, FileInvAlways, PluginInvAlways, PTL

-----------------------------------------------------------------------------
(***************************************************************************)
(* Losses                                                                  *)
(***************************************************************************)

\* A memory that goes back to the configuration saved last differs from it only in what its
\* process edited.
BasedInv ==
    \A p \in Processes :
        based[p] =>
            \A part \in Parts \ edited[p] : Part(memory[p], part) = Part(saved, part)

LEMMA BasedInvInit == Init => BasedInv
BY DEF Init, BasedInv

LEMMA BasedInvNext == TypeOK /\ FileInv /\ BasedInv /\ [Next]_vars => BasedInv'
<1> SUFFICES ASSUME TypeOK, FileInv, BasedInv, [Next]_vars,
                    NEW q \in Processes, based'[q],
                    NEW part \in Parts, part \notin edited'[q]
             PROVE  Part(memory'[q], part) = Part(saved', part)
  BY DEF BasedInv
<1>1. ASSUME memory'[q] = memory[q], edited'[q] = edited[q], saved' = saved, based[q]
      PROVE  Part(memory'[q], part) = Part(saved', part)
  BY <1>1 DEF BasedInv
<1>2. ASSUME NEW p \in Processes, Load(p)
      PROVE  Part(memory'[q], part) = Part(saved', part)
  <2>1. CASE q = p
    <3>1. Saving = {} /\ ~disturbed /\ memory'[q] = LoadConfig /\ saved' = saved
      BY <1>2, <2>1 DEF Load, TypeOK
    <3> QED
      BY <3>1, FileInvReloads DEF SavedIsReloaded, Equivalent
  <2>2. CASE q # p
    BY <1>1, <1>2, <2>2 DEF Load, TypeOK
  <2> QED
    BY <2>1, <2>2
<1>3. ASSUME NEW p \in Processes, BeginSave(p)
      PROVE  Part(memory'[q], part) = Part(saved', part)
  BY <1>1, <1>3 DEF BeginSave
<1>4. ASSUME NEW p \in Processes, EndSave(p)
      PROVE  Part(memory'[q], part) = Part(saved', part)
  BY <1>4 DEF EndSave
<1>5. ASSUME NEW p \in Processes, Crash(p)
      PROVE  Part(memory'[q], part) = Part(saved', part)
  BY <1>1, <1>5 DEF Crash, TypeOK
<1>6. ASSUME NEW p \in Processes, NEW parts, NEW names, NEW d, SoundEdit(p, parts, names, d)
      PROVE  Part(memory'[q], part) = Part(saved', part)
  <2>1. based[q] /\ saved' = saved
    BY <1>6 DEF SoundEdit, Edit
  <2>2. CASE q = p
    <3>1. memory'[q] = d /\ part \notin parts /\ part \notin edited[q]
      BY <1>6, <2>2 DEF SoundEdit, Edit, TypeOK
    <3>2. Part(d, part) = Part(memory[q], part)
      BY <1>6, <2>2, <3>1 DEF SoundEdit, Becomes
    <3> QED
      BY <2>1, <3>1, <3>2 DEF BasedInv
  <2>3. CASE q # p
    BY <1>1, <1>6, <2>1, <2>3 DEF SoundEdit, Edit, TypeOK
  <2> QED
    BY <2>2, <2>3
<1>7. CASE UNCHANGED vars
  BY <1>1, <1>7 DEF vars
<1> QED
  BY <1>2, <1>3, <1>4, <1>5, <1>6, <1>7, StepCases

\* What was saved is replaced only by a process that edited it, or whose memory was older
\* than it or loaded around a failed save, for any number of processes.
THEOREM LossesHaveCauses == Spec => LossHasCause
<1> DEFINE Caused == \A part \in Parts :
                        Part(saved', part) # Part(saved, part) =>
                            \E p \in Processes :
                                /\ pc[p] = "saving" /\ pc'[p] = "running"
                                /\ part \in edited[p] \/ ~based[p]
<1>1. TypeOK /\ BasedInv /\ [Next]_vars => Caused
  <2> SUFFICES ASSUME TypeOK, BasedInv, [Next]_vars
               PROVE  Caused
    OBVIOUS
  <2>1. ASSUME saved' = saved
        PROVE  Caused
    BY <2>1
  <2>2. ASSUME NEW p \in Processes, EndSave(p)
        PROVE  Caused
    <3>1. pc[p] = "saving" /\ pc'[p] = "running" /\ saved' = memory[p]
      BY <2>2 DEF EndSave, TypeOK
    <3>2. ASSUME NEW part \in Parts, Part(saved', part) # Part(saved, part)
          PROVE  part \in edited[p] \/ ~based[p]
      BY <3>1, <3>2 DEF BasedInv
    <3> QED
      BY <3>1, <3>2
  <2>3. \/ \E p \in Processes : EndSave(p)
        \/ saved' = saved
    BY StepCases DEF Load, BeginSave, Crash, SoundEdit, Edit, vars
  <2> QED
    BY <2>1, <2>2, <2>3
<1>2. PluginInv => TypeOK
  BY DEF PluginInv
<1>3. Caused => [Caused]_vars
  OBVIOUS
<1> QED
  BY <1>1, <1>2, BasedInvInit, BasedInvNext, FileInvAlways, PluginInvAlways, PTL
     DEF Spec, LossHasCause

=============================================================================
