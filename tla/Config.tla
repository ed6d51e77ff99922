------------------------------- MODULE Config -------------------------------
(***************************************************************************)
(* The configuration of the server: Kernel::initConfig                     *)
(* (src/kernel/main/config.cpp), which reads the file line by line, and    *)
(* ConfigImpl (src/kernel/main/impl/cfgimpl.h), through which the rest of  *)
(* the program looks values up.                                            *)
(*                                                                         *)
(* The code keeps one flat map from dotted names to (list of subsections,  *)
(* values).  A dotted name is here the sequence of its parts, so that      *)
(* joining names with "." is concatenation, for a section [[a.b]] too.     *)
(* The text of a line is a sequence of tokens: words, brackets, "=", "#".  *)
(* Blanks and quotes are left out, names are not empty, no word is broken  *)
(* over two lines, and the last line of a file ends with a newline.        *)
(***************************************************************************)
EXTENDS Naturals, Sequences, SequencesExt, FiniteSetsExt, TLC

VARIABLES
    lines,      \* the lines initConfig has not read yet
    path,       \* its local path: the names of the open sections
    config,     \* config_data: dotted name -> [sections, values]
    reading     \* "no", "yes", "done", or "crashed"

configVars == <<lines, path, config, reading>>

\* A physical line: what is written in it, and whether it ends with a backslash.
Line == [raw : Seq(STRING), brk : BOOLEAN]

\* re_config_remove_comment: from the last "#" to the end.
RemoveComment(t) ==
    LET hashes == {i \in DOMAIN t : t[i] = "#"}
    IN  IF hashes = {} THEN t ELSE SubSeq(t, 1, Max(hashes) - 1)

\* re_config_section: opening brackets, whose number is the level, and a name up
\* to the first closing one.
IsSection(raw) == raw # << >> /\ raw[1] = "[" /\ "]" \in ToSet(raw)
SectionOf(raw) ==
    LET level == Min({i \in DOMAIN raw : raw[i] # "["}) - 1
        close == Min({i \in DOMAIN raw : raw[i] = "]"})
    IN  [kind |-> "section", level |-> level,
         name |-> RemoveComment(SubSeq(raw, level + 1, close - 1)), text |-> << >>]

\* re_config_propety: a word, "=", and the value.
NoWord == {"[", "]", "=", "#", "/", ",", "*", "?"}
IsProperty(raw) == Len(raw) > 1 /\ raw[1] \notin NoWord /\ raw[2] = "="
PropertyOf(raw) ==
    [kind |-> "property", level |-> 0, name |-> <<raw[1]>>, text |-> SubSeq(raw, 3, Len(raw))]

\* A comment, a blank line, garbage.
TextOf(raw) == [kind |-> "text", level |-> 0, name |-> << >>, text |-> raw]

\* Number of physical lines of the logical line that starts ls: a line that
\* ends with a backslash goes on in the next one, or in nothing at the end.
LineEnd(ls) ==
    LET ends == {i \in DOMAIN ls : ~ls[i].brk}
    IN  IF ends = {} THEN Len(ls) ELSE Min(ends)

\* A line between the first and the last loses its comment when it is joined.
Piece(ls, i) == IF i > 1 /\ ls[i].brk THEN RemoveComment(ls[i].raw) ELSE ls[i].raw

\* The logical line at the start of ls: the pieces are joined, and then it is
\* seen what they are.
LogicalLine(ls) ==
    LET raw == FlattenSeq([i \in 1..LineEnd(ls) |-> Piece(ls, i)])
    IN  IF IsSection(raw) THEN SectionOf(raw)
        ELSE IF IsProperty(raw) THEN PropertyOf(raw) ELSE TextOf(raw)

-----------------------------------------------------------------------------
implode_config_path(p) == FlattenSeq(p)

\* unordered_map::emplace: what is there stays.
Emplace(map, key, value) ==
    [k \in DOMAIN map \cup {key} |-> IF k \in DOMAIN map THEN map[k] ELSE value]

NoSection == [sections |-> << >>, values |-> << >>]

\* Bug: the section is listed by its parent but has no entry of its own.
ReadSection_NoEntry ==
    /\ LET l == LogicalLine(lines)
           parent == SubSeq(path, 1, Min({l.level - 1, Len(path)}))
           key == implode_config_path(parent)
       IN  /\ l.kind = "section"
           /\ config' = [Emplace(config, key, NoSection) EXCEPT ![key].sections = Append(@, l.name)]
           /\ path' = Append(parent, l.name)
    /\ UNCHANGED reading

\* Bug: a section closes only one of the open ones.
ReadSection_PopsOne ==
    /\ LET l == LogicalLine(lines)
           parent == IF l.level > Len(path) THEN path ELSE SubSeq(path, 1, Len(path) - 1)
           key == implode_config_path(parent)
           both == Emplace(Emplace(config, key \o l.name, NoSection), key, NoSection)
       IN  /\ l.kind = "section"
           /\ config' = [both EXCEPT ![key].sections = Append(@, l.name)]
           /\ path' = Append(parent, l.name)
    /\ UNCHANGED reading

\* A section closes the open sections of its level and deeper; when it skips
\* a level it is put under the innermost open one.
ReadSection ==
    /\ LET l == LogicalLine(lines)
           parent == SubSeq(path, 1, Min({l.level - 1, Len(path)}))
           key == implode_config_path(parent)
           both == Emplace(Emplace(config, key \o l.name, NoSection), key, NoSection)
       IN  /\ l.kind = "section"
           /\ config' = [both EXCEPT ![key].sections = Append(@, l.name)]
           /\ path' = Append(parent, l.name)
    /\ UNCHANGED reading

\* A property goes to the innermost open section; the first value stays.
\* Before any section find() returns end(), and the program crashes.
ReadProperty ==
    LET l == LogicalLine(lines)
        key == implode_config_path(path)
    IN  /\ l.kind = "property"
        /\ IF key \in DOMAIN config
           THEN /\ config' = [config EXCEPT ![key].values =
                                Emplace(@, l.name[1], RemoveComment(l.text))]
                /\ UNCHANGED reading
           ELSE /\ reading' = "crashed"
                /\ UNCHANGED config
        /\ UNCHANGED path

ReadText ==
    /\ LogicalLine(lines).kind = "text"
    /\ UNCHANGED <<path, config, reading>>

initConfig ==
    /\ reading = "yes"
    /\ lines # << >>
    /\ ReadSection \/ ReadProperty \/ ReadText
    /\ lines' = SubSeq(lines, LineEnd(lines) + 1, Len(lines))

EndOfFile ==
    /\ reading = "yes"
    /\ lines = << >>
    /\ reading' = "done"
    /\ UNCHANGED <<lines, path, config>>

ConfigInit ==
    /\ lines = << >>
    /\ path = << >>
    /\ config = << >>
    /\ reading = "no"

OpenFile(file) ==
    /\ reading = "no"
    /\ lines' = file
    /\ reading' = "yes"
    /\ UNCHANGED <<path, config>>

-----------------------------------------------------------------------------
(* ConfigImpl: the look-ups, relative to a namespace `space`.              *)

GetSections(c, space) == IF space \in DOMAIN c THEN c[space].sections ELSE << >>

\* operator[] and GetConfigValue: the value of a property of a section.
GetConfigValue(c, space, name, default) ==
    IF space \in DOMAIN c /\ name \in DOMAIN c[space].values
    THEN c[space].values[name] ELSE default

-----------------------------------------------------------------------------
(* What a file means, stated without the reader's stack.                   *)

\* The lines at which a logical line starts: the first, and each one after a
\* line without a backslash.
Starts(file) == {i \in DOMAIN file : i = 1 \/ ~file[i - 1].brk}

\* The logical lines of a file, under the number of their first line.
Logical(file) == [i \in Starts(file) |-> LogicalLine(SubSeq(file, i, Len(file)))]

SectionLines(ll) == {i \in DOMAIN ll : ll[i].kind = "section"}

\* The section line in force at line i, or 0.
InForce(ll, i) == Max({0} \cup {j \in SectionLines(ll) : j <= i})

\* Every section is at most one level deeper than the one before it.
WellNested(ll) ==
    \A i \in SectionLines(ll) :
        LET before == InForce(ll, i - 1)
        IN  ll[i].level <= 1 + (IF before = 0 THEN 0 ELSE ll[before].level)

\* A section belongs to the nearest section above it of the level before its
\* own, or to the root.
Parent(ll, i) ==
    Max({0} \cup {j \in SectionLines(ll) : j < i /\ ll[j].level = ll[i].level - 1})

FullName(ll) ==
    LET name[i \in {0} \cup SectionLines(ll)] ==
            IF i = 0 THEN << >> ELSE name[Parent(ll, i)] \o ll[i].name
    IN  [i \in SectionLines(ll) |-> name[i]]

\* The k-th member of a set of numbers.
Nth(S, k) == CHOOSE i \in S : Cardinality({j \in S : j <= i}) = k

\* The names of the sections directly inside those named `key`, in the order of
\* the file, for the lines in L.
SectionsOf(ll, key, L) ==
    LET inside == {i \in SectionLines(ll) \cap L : FullName(ll)[i] = key \o ll[i].name}
    IN  [k \in 1..Cardinality(inside) |-> ll[Nth(inside, k)].name]

\* The first value of each property of the sections named `key`.
ValuesOf(ll, key, L) ==
    LET set == {i \in DOMAIN ll \cap L : /\ ll[i].kind = "property"
                                         /\ InForce(ll, i) # 0
                                         /\ FullName(ll)[InForce(ll, i)] = key}
    IN  [n \in {ll[i].name[1] : i \in set} |->
            RemoveComment(ll[Min({i \in set : ll[i].name[1] = n})].text)]

\* The sections named `key`, the root included.
Meaning(ll, key) ==
    [sections |-> SectionsOf(ll, key, DOMAIN ll), values |-> ValuesOf(ll, key, DOMAIN ll)]

\* The flat map is a tree: a subsection that is listed exists, a section that
\* exists is listed by its parent, and an open section is there to take
\* properties.  This holds for every file, well nested or not.
SectionsResolve ==
    /\ \A key \in DOMAIN config : \A s \in ToSet(config[key].sections) :
          key \o s \in DOMAIN config
    /\ \A key \in DOMAIN config \ {<< >>} : \E parent \in DOMAIN config :
          \E s \in ToSet(config[parent].sections) : key = parent \o s
    /\ path # << >> => implode_config_path(path) \in DOMAIN config
=============================================================================
