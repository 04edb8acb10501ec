---------------------------- MODULE PluginConfig ----------------------------
(***************************************************************************)
(* The configuration of the QGIS plugin: connections to servers, the       *)
(* active one and the collections selected of each, in the memory of every *)
(* QGIS process that runs the plugin and in one JSON file they share.      *)
(*                                                                         *)
(* save_config opens the file, which empties it, and then writes it; other *)
(* processes may load or save in between, and a process may end there.     *)
(* Connections and selections are sets: nothing depends on their order.    *)
(* The preferences are left out.                                           *)
(***************************************************************************)
EXTENDS Naturals

CONSTANTS
    Processes,      \* QGIS processes
    Names,          \* names of connections
    Urls,           \* base URLs, as users type them
    Stripped,       \* maps a base URL to that without trailing slashes
    Collections,    \* ids of collections
    None,           \* the empty name
    Absent,         \* no file
    Empty,          \* a file without content
    Garbage,        \* a file whose content is no JSON document
    MaxEdits        \* bound: how often configurations are edited

ASSUME UrlsAssumption ==
    /\ Stripped \in [Urls -> Urls]
    /\ \A url \in Urls : Stripped[Stripped[url]] = Stripped[url]
ASSUME MaxEditsAssumption == MaxEdits \in Nat

Connections == [name : Names, url : Urls]

Selections == [name : Names, ids : SUBSET Collections]

Configs == [connections : SUBSET Connections, active : Names \cup {None},
            selections : SUBSET Selections]

Unreadable == {Absent, Empty, Garbage}

ASSUME NoneAssumption == None \notin Names
ASSUME UnreadableAssumption ==
    /\ \A content \in Unreadable : content \notin Configs
    /\ Absent # Empty /\ Empty # Garbage /\ Garbage # Absent

\* What a configuration consists of: of each name its connection and its selection, and,
\* under None, the active connection.
Parts == Names \cup {None}

VARIABLES
    memory,     \* the PluginConfig object of each process
    pc,         \* whether a process is down, running or in the middle of save_config
    file,       \* the content of the file: a configuration or what is none
    edits,      \* how many edits there were
    saved,      \* auxiliary: the configuration that was saved last
    based,      \* auxiliary: the memory of the process goes back to saved: nobody saved
                \*   after it loaded or saved, and it did not load in the middle of a
                \*   save, or after one that failed
    edited,     \* auxiliary: the parts each process edited since it loaded or saved
    disturbed,  \* auxiliary: a save ended early or met another since the last that did not
    unchecked   \* auxiliary: the names a caller activated or selected from at a time when
                \*   there was no connection of that name

vars == <<memory, pc, file, edits, saved, based, edited, disturbed, unchecked>>

TypeOK ==
    /\ memory \in [Processes -> Configs]
    /\ pc \in [Processes -> {"down", "running", "saving"}]
    /\ file \in Configs \cup Unreadable
    /\ edits \in 0 .. MaxEdits
    /\ saved \in Configs
    /\ based \in [Processes -> BOOLEAN]
    /\ edited \in [Processes -> SUBSET Parts]
    /\ disturbed \in BOOLEAN
    /\ unchecked \subseteq Names

Default == [connections |-> {}, active |-> None, selections |-> {}]

Init ==
    /\ memory = [p \in Processes |-> Default]
    /\ pc = [p \in Processes |-> "down"]
    /\ file = Absent
    /\ edits = 0
    /\ saved = Default
    /\ based = [p \in Processes |-> FALSE]
    /\ edited = [p \in Processes |-> {}]
    /\ disturbed = FALSE
    /\ unchecked = {}

-----------------------------------------------------------------------------
(***************************************************************************)
(* Operations on a configuration                                           *)
(***************************************************************************)

NamesOf(c) == {conn.name : conn \in c.connections}

\* add_connection replaces the connection of that name.
AddConnection(c, conn) ==
    [c EXCEPT !.connections = {other \in @ : other.name # conn.name} \cup {conn}]

RemoveConnectionOnly(c, name) ==
    [c EXCEPT !.connections = {conn \in @ : conn.name # name},
              !.active = IF @ = name THEN None ELSE @]

RemoveConnection(c, name) ==
    [connections |-> {conn \in c.connections : conn.name # name},
     active |-> IF c.active = name THEN None ELSE c.active,
     selections |-> {s \in c.selections : s.name # name}]

SetSelectedCollections(c, name, ids) ==
    [c EXCEPT !.selections = {s \in @ : s.name # name}
                             \cup (IF ids = {} THEN {} ELSE {[name |-> name, ids |-> ids]})]

\* PluginConfig.from_dict of what to_dict made.
FromDictBare(c) ==
    [connections |-> {[conn EXCEPT !.url = Stripped[@]] : conn \in c.connections},
     active |-> c.active]

FromDictInactive(c) == [c EXCEPT !.active = None]

FromDict(c) == [c EXCEPT !.connections = {[conn EXCEPT !.url = Stripped[@]] : conn \in @}]

\* Anything but a configuration loads as the default one.
LoadConfig == IF file \in Unreadable THEN Default ELSE FromDict(file)

-----------------------------------------------------------------------------

Saving == {p \in Processes : pc[p] = "saving"}

\* load_config, when the plugin starts or later.
Load(p) ==
    /\ pc[p] # "saving"
    /\ pc' = [pc EXCEPT ![p] = "running"]
    /\ memory' = [memory EXCEPT ![p] = LoadConfig]
    /\ based' = [based EXCEPT ![p] = Saving = {} /\ ~disturbed]
    /\ edited' = [edited EXCEPT ![p] = {}]
    /\ UNCHANGED <<file, edits, saved, disturbed, unchecked>>

\* A caller changes these parts of the configuration to c, in which it names these
\* connections; the code does not ask whether they exist.
Edit(p, parts, names, c) ==
    /\ pc[p] = "running"
    /\ edits < MaxEdits
    /\ edits' = edits + 1
    /\ memory' = [memory EXCEPT ![p] = c]
    /\ edited' = [edited EXCEPT ![p] = @ \cup parts]
    /\ unchecked' = unchecked \cup (names \ NamesOf(memory[p]))
    /\ UNCHANGED <<pc, file, saved, based, disturbed>>

Add(p, conn) == Edit(p, {conn.name}, {}, AddConnection(memory[p], conn))

Remove(p, name) ==
    LET active == IF memory[p].active = name THEN {None} ELSE {} IN
    Edit(p, {name} \cup active, {}, RemoveConnection(memory[p], name))

\* active_connection is an attribute that callers assign.
Activate(p, name) ==
    Edit(p, {None}, {name} \ {None}, [memory[p] EXCEPT !.active = name])

Select(p, name, ids) ==
    Edit(p, {name}, IF ids = {} THEN {} ELSE {name},
         SetSelectedCollections(memory[p], name, ids))

\* What opening the file for writing makes of it.
TruncatedKept(content) == content
Truncated(content) == Empty

BeginSave(p) ==
    /\ pc[p] = "running"
    /\ pc' = [pc EXCEPT ![p] = "saving"]
    /\ file' = Truncated(file)
    /\ disturbed' = (Saving # {})
    /\ UNCHANGED <<memory, edits, saved, based, edited, unchecked>>

\* Over a longer text that another process wrote in the meantime, the rest of it stays.
Overwritten(content, new) == IF content = Empty THEN {new} ELSE {new, Garbage}

EndSave(p) ==
    /\ pc[p] = "saving"
    /\ pc' = [pc EXCEPT ![p] = "running"]
    /\ file' \in Overwritten(file, memory[p])
    /\ saved' = memory[p]
    /\ based' = [q \in Processes |-> q = p]
    /\ edited' = [edited EXCEPT ![p] = {}]
    /\ UNCHANGED <<memory, edits, disturbed, unchecked>>

\* In the middle of a save, some of the text may be in the file.
Crash(p) ==
    /\ pc[p] # "down"
    /\ pc' = [pc EXCEPT ![p] = "down"]
    /\ memory' = [memory EXCEPT ![p] = Default]
    /\ based' = [based EXCEPT ![p] = FALSE]
    /\ edited' = [edited EXCEPT ![p] = {}]
    /\ IF pc[p] = "saving"
       THEN file' \in {file, Garbage} /\ disturbed' = TRUE
       ELSE UNCHANGED <<file, disturbed>>
    /\ UNCHANGED <<edits, saved, unchecked>>

Next ==
    \E p \in Processes :
        \/ Load(p) \/ BeginSave(p) \/ EndSave(p) \/ Crash(p)
        \/ \E conn \in Connections : Add(p, conn)
        \/ \E name \in Names : Remove(p, name)
        \/ \E name \in Names \cup {None} : Activate(p, name)
        \/ \E name \in Names, ids \in SUBSET Collections : Select(p, name, ids)

Spec == Init /\ [][Next]_vars

-----------------------------------------------------------------------------
(***************************************************************************)
(* Properties                                                              *)
(***************************************************************************)

References(c) == ({c.active} \ {None}) \cup {s.name : s \in c.selections}

Consistent(c) ==
    /\ \A conn, other \in c.connections : conn.name = other.name => conn = other
    /\ \A s, t \in c.selections : s.name = t.name => s = t
    /\ References(c) \subseteq NamesOf(c) \cup unchecked

\* However adding, removing, selecting, saving and loading follow each other in several
\* processes, in every memory and in every file that can be loaded a name has at most one
\* connection and one selection, and the active connection and those selected from exist,
\* unless a caller once named them when they did not: no operation of PluginConfig leaves a
\* reference behind (remove_connection clears them, add_connection and from_dict keep them).
DanglingWasMade ==
    /\ \A p \in Processes : Consistent(memory[p])
    /\ file \notin Unreadable => Consistent(file)

\* What a configuration says of a part, but for slashes at the end of URLs.
Part(c, part) ==
    IF part = None THEN c.active
    ELSE << {Stripped[conn.url] : conn \in {o \in c.connections : o.name = part}},
            {s.ids : s \in {o \in c.selections : o.name = part}} >>

Equivalent(c, d) == \A part \in Parts : Part(c, part) = Part(d, part)

\* load_config returns what was saved last, by whichever process, and not an empty or an
\* older configuration, except while a save is under way, and after one that ended early or
\* met another until there is one that did not (save_config empties the file and then
\* writes it, from_dict reverses to_dict).
SavedIsReloaded == Saving = {} /\ ~disturbed => Equivalent(LoadConfig, saved)

\* Saving loses nothing else: of what was saved before, a save replaces only the parts that
\* its process edited, unless another process saved after this one had loaded, or it had
\* loaded in the middle of a save or after one that failed.  In these cases alone load_config
\* and save_config, which take and put the whole file, lose what others saved.
LossHasCause ==
    [][\A part \in Parts :
          Part(saved', part) # Part(saved, part) =>
              \E p \in Processes :
                  /\ pc[p] = "saving" /\ pc'[p] = "running"
                  /\ part \in edited[p] \/ ~based[p]]_vars

=============================================================================
