------------------------------ MODULE Scraper ------------------------------
(***************************************************************************)
(* The job that generates the preset table (scripts/scrape_fingerprints.py)*)
(* It probes a test server through other HTTP libraries, one target after  *)
(* the other, and then either rebuilds the table from what it has got      *)
(* (deduplication, aliases) or adds what is new to the existing table      *)
(* (--augment), and writes httpz/presets.py and httpz/_types.py.           *)
(*                                                                         *)
(* Every probe may fail, a library may be missing, and the job may be      *)
(* interrupted at any moment; the files are what the next job starts from. *)
(***************************************************************************)
EXTENDS Presets, Naturals, Sequences, FiniteSets

CONSTANTS
    Sources,         \* ALL_SOURCES
    Preferred,       \* the source that wins over the others
    Offered,         \* Offered[s]: the targets the library s lists, in order
    Tagged,          \* Tagged[s][n]: the key "s:n"
    Variants,        \* Variants[n]: n + "a", n + "b", ...; bound: a finite sequence
    FamilyOf,        \* FamilyOf[n]: detect_family, NoFamily for okhttp and unknown names
    NoFamily,
    Answers,         \* Answers[n]: the fingerprints the server may see of target n
    Length,          \* len(name)
    Position,        \* the place of a name in sorted order
    InitialTable,    \* the files before the first job
    InitialLiteral,
    Jobs,            \* what a maintainer may run: a mode, and the sources that --only and
                     \* --skip leave of ALL_SOURCES, in its order
    MaxJobs          \* bound: the number of jobs

ASSUME VariantAssumption ==
    \A n \in Names : \A i \in DOMAIN Variants[n] :
        Variants[n][i] \in Names /\ (NormOf[n] = n => NormOf[Variants[n][i]] = Variants[n][i])

\* The names of captures, and the keys they may be stored under.
OfferedNames == UNION {{Offered[s][i] : i \in DOMAIN Offered[s]} : s \in Sources}
CaptureKeys == OfferedNames \cup {Tagged[s][n] : s \in Sources, n \in OfferedNames}

\* A library lists a name once, and no library has a name with a colon.
ASSUME OfferAssumption ==
    /\ \A s \in Sources :
          /\ Offered[s] \in Seq(OfferedNames)
          /\ \A i, j \in DOMAIN Offered[s] : Offered[s][i] = Offered[s][j] => i = j
    /\ CaptureKeys \subseteq Names
    /\ \A s \in Sources, m \in OfferedNames :
          /\ Tagged[s][m] \notin OfferedNames
          /\ \A t \in Sources, n \in OfferedNames :
                Tagged[s][m] = Tagged[t][n] => s = t /\ m = n

ASSUME OrderAssumption ==
    \A m \in CaptureKeys :
        /\ Length[m] \in Nat /\ Position[m] \in Nat
        /\ \A n \in CaptureKeys : Position[m] = Position[n] => m = n

ASSUME JobAssumption ==
    /\ MaxJobs \in Nat
    /\ \A job \in Jobs :
          /\ job.mode \in {"full", "augment"} /\ job.sources \in Seq(Sources)
          /\ \A i, j \in DOMAIN job.sources : job.sources[i] = job.sources[j] => i = j

\* The two files of a checkout were written by one job, from a dict whose aliases all
\* lead to a target and whose targets have different fingerprints.
ASSUME InitialAssumption ==
    /\ InitialLiteral = Listed(InitialTable)
    /\ InitialTable = [targets |-> InitialTable.targets, aliases |-> InitialTable.aliases]
    /\ Listed(InitialTable) \subseteq Names /\ IsFiniteSet(Listed(InitialTable))
    /\ \A n \in DOMAIN InitialTable.aliases :
          InitialTable.aliases[n] \in DOMAIN InitialTable.targets
    /\ \A m, n \in DOMAIN InitialTable.targets :
          InitialTable.targets[m].fp = InitialTable.targets[n].fp => m = n

VARIABLES
    table,    \* httpz/presets.py
    intact,   \* presets.py holds a whole module
    literal,  \* the names in httpz/_types.py
    phase,    \* where main() is
    mode,     \* "full" or "augment"
    todo,     \* the sources still to scrape
    at,       \* the next target of the first of them
    scraped,  \* targets: what was captured, in the order of its keys in the dict
    draft,    \* the table being put together
    pending,  \* the entries of scraped that augment() has not looked at
    jobs,     \* jobs started
    torn      \* a job stopped between its first and its last write (history)

fileVars == <<table, intact, literal, torn>>
jobVars == <<mode, todo, at, scraped, draft, pending>>
vars == <<fileVars, phase, jobVars, jobs>>

Empty == <<>>
NoTable == [targets |-> Empty, aliases |-> Empty]

TypeOK ==
    /\ DOMAIN table.targets \subseteq Names /\ DOMAIN table.aliases \subseteq Names
    /\ intact \in BOOLEAN /\ torn \in BOOLEAN
    /\ literal \subseteq Names
    /\ phase \in {"idle", "scrape", "rebuild", "load", "augment",
                  "open", "write", "openTypes", "writeTypes"}
    /\ mode \in {"full", "augment"}
    /\ at \in Nat \ {0}
    /\ \A i \in DOMAIN scraped : scraped[i].key \in Names /\ scraped[i].name \in Names
    /\ \A i, j \in DOMAIN scraped : scraped[i].key = scraped[j].key => i = j
    /\ pending \subseteq DOMAIN scraped
    /\ jobs \in 0 .. MaxJobs

Init ==
    /\ table = InitialTable /\ intact = TRUE /\ literal = InitialLiteral /\ torn = FALSE
    /\ phase = "idle" /\ mode = "full"
    /\ todo = <<>> /\ at = 1 /\ scraped = <<>>
    /\ draft = NoTable /\ pending = {} /\ jobs = 0

Goto(from, to) == phase = from /\ phase' = to

\* The process is gone, and its memory with it.
Exit ==
    /\ phase' = "idle" /\ mode' = "full"
    /\ todo' = <<>> /\ at' = 1 /\ scraped' = <<>>
    /\ draft' = NoTable /\ pending' = {}
    /\ UNCHANGED jobs

\* The arguments of the command line.
Start(job) ==
    /\ Goto("idle", "scrape")
    /\ jobs < MaxJobs
    /\ jobs' = jobs + 1
    /\ mode' = job.mode
    /\ todo' = job.sources
    /\ at' = 1
    /\ scraped' = <<>>
    /\ UNCHANGED <<fileVars, draft, pending>>

(***************************************************************************)
(* Scraping.                                                               *)
(***************************************************************************)
Keys(entries) == {entries[i].key : i \in DOMAIN entries}

\* The target about to be probed, and the key its capture is stored under.
Target == Offered[Head(todo)][at]
Mut_StoredKey == Target
StoredKey == IF Target \in Keys(scraped) THEN Tagged[Head(todo)][Target] ELSE Target

Probing == todo # <<>> /\ at <= Len(Offered[Head(todo)])

Probe ==
    /\ Goto("scrape", "scrape")
    /\ Probing
    /\ FamilyOf[Target] # NoFamily
    /\ \E f \in Answers[Target] :
          scraped' = Append(scraped, [key |-> StoredKey, name |-> Target, fp |-> f,
                                      source |-> Head(todo), browser |-> FamilyOf[Target]])
    /\ at' = at + 1
    /\ UNCHANGED <<fileVars, mode, todo, draft, pending, jobs>>

\* Skipped for its family, no JA3 in the answer, or an exception.
ProbeFails ==
    /\ Goto("scrape", "scrape")
    /\ Probing
    /\ at' = at + 1
    /\ UNCHANGED <<fileVars, mode, todo, scraped, draft, pending, jobs>>

\* A source is done, or its library is missing and it cannot be listed.
NextSource ==
    /\ Goto("scrape", "scrape")
    /\ todo # <<>>
    /\ ~Probing \/ at = 1
    /\ todo' = Tail(todo)
    /\ at' = 1
    /\ UNCHANGED <<fileVars, mode, scraped, draft, pending, jobs>>

EndScrape ==
    /\ Goto("scrape", IF mode = "augment" THEN "load" ELSE "rebuild")
    /\ todo = <<>>
    /\ UNCHANGED <<fileVars, jobVars, jobs>>

(***************************************************************************)
(* The full rebuild: dedupe_targets and build_aliases.                     *)
(***************************************************************************)
Preference(i) == IF scraped[i].source = Preferred THEN 0 ELSE 1

\* The order of rank(): source, length, name.
RankedBefore(i, j) ==
    LET a == scraped[i].key
        b == scraped[j].key
    IN  \/ Preference(i) < Preference(j)
        \/ /\ Preference(i) = Preference(j)
           /\ \/ Length[a] < Length[b]
              \/ Length[a] = Length[b] /\ Position[a] < Position[b]

\* The entries with the fingerprint of entry i, and the one that stands for them.
Twins(i) == {j \in DOMAIN scraped : scraped[j].fp = scraped[i].fp}
Winner(i) == CHOOSE w \in Twins(i) : \A j \in Twins(i) \ {w} : RankedBefore(w, j)
Winners == {Winner(i) : i \in DOMAIN scraped}

\* groups is filled in the order of the dict, so a group stands where its first twin does.
Group(i) == CHOOSE g \in Twins(i) : \A j \in Twins(i) : g <= j

Losers == DOMAIN scraped \ Winners
LoserBefore(i, j) == Group(i) < Group(j) \/ (Group(i) = Group(j) /\ RankedBefore(i, j))
TargetBefore(i, j) ==
    Preference(i) < Preference(j) \/ (Preference(i) = Preference(j) /\ Group(i) < Group(j))

Spellings(i) == {scraped[i].key, NormOf[scraped[i].key]}

\* A build_aliases that assigns the targets after the dropped names.
Mut_AliasOf(n) ==
    LET dropped    == {i \in Losers : n \in Spellings(i)}
        candidates == {i \in Winners : n \in Spellings(i)}
    IN  IF candidates = {}
        THEN scraped[Winner(CHOOSE i \in dropped : \A j \in dropped \ {i} : LoserBefore(j, i))].key
        ELSE scraped[CHOOSE i \in candidates :
                         \A j \in candidates \ {i} : TargetBefore(j, i)].key

\* A dropped name is assigned last and overwrites; among the targets the first one stays.
AliasOf(n) ==
    LET dropped    == {i \in Losers : n \in Spellings(i)}
        candidates == {i \in Winners : n \in Spellings(i)}
    IN  IF dropped # {}
        THEN scraped[Winner(CHOOSE i \in dropped :
                                \A j \in dropped \ {i} : LoserBefore(j, i))].key
        ELSE scraped[CHOOSE i \in candidates :
                         \A j \in candidates \ {i} : TargetBefore(i, j)].key

Profile(i) == [fp |-> scraped[i].fp, browser |-> scraped[i].browser]

\* One target per captured name.
Mut_Rebuilt ==
    [targets |-> [n \in Keys(scraped) |->
                      Profile(CHOOSE i \in DOMAIN scraped : scraped[i].key = n)],
     aliases |-> [n \in UNION {Spellings(i) : i \in DOMAIN scraped} |-> AliasOf(n)]]

Rebuilt ==
    [targets |-> [n \in {scraped[i].key : i \in Winners} |->
                      Profile(CHOOSE i \in Winners : scraped[i].key = n)],
     aliases |-> [n \in UNION {Spellings(i) : i \in DOMAIN scraped} |-> AliasOf(n)]]

Rebuild ==
    /\ Goto("rebuild", "open")
    /\ draft' = Rebuilt
    /\ UNCHANGED <<fileVars, mode, todo, at, scraped, pending, jobs>>

(***************************************************************************)
(* --augment: load_existing_presets and augment.                           *)
(***************************************************************************)
\* Without its marker the file cannot be parsed and the job ends with an exception.
LoadExisting ==
    /\ \/ /\ intact /\ Goto("load", "augment")
          /\ draft' = table /\ pending' = DOMAIN scraped
          /\ UNCHANGED <<mode, todo, at, scraped, jobs>>
       \/ ~intact /\ phase = "load" /\ Exit
    /\ UNCHANGED fileVars

\* A name that is only an alias taken for free.
Mut_Taken(n) == n \in DOMAIN draft.targets
Taken(n) == n \in Listed(draft)

\* unique_name: the name itself, or its first free variant.
FreeVariants(n) == {i \in DOMAIN Variants[n] : ~Taken(Variants[n][i])}
FirstFree(n) == {i \in FreeVariants(n) : \A j \in FreeVariants(n) : i <= j}
UniqueName(n) == IF ~Taken(n) THEN {n} ELSE {Variants[n][i] : i \in FirstFree(n)}

\* fp_to_name: the target with this fingerprint, among the old ones and those just added.
Known(f) == {n \in DOMAIN draft.targets : draft.targets[n].fp = f}

Base(i) == NormOf[scraped[i].name]

\* A duplicate wired to the name the source gave it.
Mut_WireDuplicate(i) ==
    /\ Known(scraped[i].fp) # {}
    /\ draft' = IF Taken(Base(i)) THEN draft
                ELSE [draft EXCEPT !.aliases = Put(@, Base(i), scraped[i].name)]

\* A fingerprint that is there already: its name becomes an alias if nobody uses it.
WireDuplicate(i) ==
    \E canonical \in Known(scraped[i].fp) :
        draft' = IF Taken(Base(i)) THEN draft
                 ELSE [draft EXCEPT !.aliases = Put(@, Base(i), canonical)]

AddNew(i) ==
    /\ Known(scraped[i].fp) = {}
    /\ \E name \in UniqueName(Base(i)) :
          draft' = [targets |-> Put(draft.targets, name, Profile(i)),
                    aliases |-> SetDefault(SetDefault(draft.aliases, name, name),
                                           NormOf[name], name)]

AugmentNext(i) ==
    /\ Goto("augment", "augment")
    /\ i \in pending
    /\ \A j \in pending : Position[scraped[i].key] <= Position[scraped[j].key]
    /\ WireDuplicate(i) \/ AddNew(i)
    /\ pending' = pending \ {i}
    /\ UNCHANGED <<fileVars, mode, todo, at, scraped, jobs>>

EndAugment ==
    /\ Goto("augment", "open")
    /\ pending = {}
    /\ UNCHANGED <<fileVars, jobVars, jobs>>

(***************************************************************************)
(* Writing.                                                                *)
(***************************************************************************)
\* open(out_path, "w") truncates the file before its text is rendered.
OpenFile ==
    /\ Goto("open", "write")
    /\ table' = NoTable /\ intact' = FALSE
    /\ UNCHANGED <<literal, torn, jobVars, jobs>>

WriteTable ==
    /\ Goto("write", "openTypes")
    /\ table' = draft /\ intact' = TRUE
    /\ UNCHANGED <<literal, torn, jobVars, jobs>>

\* The same for _types.py.
OpenTypes ==
    /\ Goto("openTypes", "writeTypes")
    /\ literal' = {}
    /\ UNCHANGED <<table, intact, torn, jobVars, jobs>>

\* A type of the unique profiles only.
Mut_WriteTypes ==
    /\ phase = "writeTypes"
    /\ literal' = DOMAIN draft.targets
    /\ torn' = FALSE
    /\ Exit
    /\ UNCHANGED <<table, intact>>

WriteTypes ==
    /\ phase = "writeTypes"
    /\ literal' = Listed(draft)
    /\ torn' = FALSE
    /\ Exit
    /\ UNCHANGED <<table, intact>>

\* An exception or a keyboard interrupt; probes swallow the exceptions of their own.
Interrupt ==
    /\ phase # "idle"
    /\ torn' = (torn \/ phase \in {"write", "openTypes", "writeTypes"})
    /\ Exit
    /\ UNCHANGED <<table, intact, literal>>

\* No job is left to run.
Finished == phase = "idle" /\ jobs = MaxJobs /\ UNCHANGED vars

Next ==
    \/ \E job \in Jobs : Start(job)
    \/ Probe \/ ProbeFails \/ NextSource \/ EndScrape
    \/ Rebuild
    \/ LoadExisting \/ (\E i \in pending : AugmentNext(i)) \/ EndAugment
    \/ OpenFile \/ WriteTable \/ OpenTypes \/ WriteTypes
    \/ Interrupt
    \/ Finished

Spec == Init /\ [][Next]_vars

-----------------------------------------------------------------------------
(***************************************************************************)
(* Every name list_impersonate_targets() lists can be resolved, whatever   *)
(* sequence of jobs has produced the table: no alias dangles.              *)
(***************************************************************************)
ListedNamesResolve ==
    /\ \A n \in Listed(table) : Resolve(table, n) # NoName
    /\ phase # "idle" => \A n \in Listed(draft) : Resolve(draft, n) # NoName

(***************************************************************************)
(* No fingerprint is stored twice, and when a job has written the table,   *)
(* every fingerprint it captured is in there ("duplicates are skipped so   *)
(* nothing is stored twice", README).                                      *)
(***************************************************************************)
StoredOnce ==
    /\ Cardinality({table.targets[n].fp : n \in DOMAIN table.targets})
           = Cardinality(DOMAIN table.targets)
    /\ phase = "openTypes" =>
          \A i \in DOMAIN scraped :
              \E n \in DOMAIN table.targets : table.targets[n].fp = scraped[i].fp

\* The name of the i-th capture resolves to the fingerprint of the j-th.
LeadsTo(i, j) ==
    LET n == Resolve(table, scraped[i].key)
    IN  n # NoName /\ table.targets[n].fp = scraped[j].fp

(***************************************************************************)
(* After a full rebuild the name of every capture leads to the fingerprint *)
(* captured under it, also when deduplication dropped the name ("Names     *)
(* that lost the dedupe race still resolve to the canonical winner").      *)
(* Names that differ in spelling only share one alias: where one dropped   *)
(* name is the normal form of another, the other may take its alias, and   *)
(* it leads to the fingerprint of that other name, never to a third.       *)
(***************************************************************************)
DroppedNamesResolve ==
    phase = "openTypes" /\ mode = "full" =>
        \A i \in DOMAIN scraped :
            \/ LeadsTo(i, i)
            \/ \E j \in Losers \ {i} : NormOf[scraped[j].key] = scraped[i].key /\ LeadsTo(i, j)

(***************************************************************************)
(* The static type lists exactly the names that resolve, whenever no job   *)
(* is running and none has been stopped between its two writes since the   *)
(* last one that finished.                                                 *)
(***************************************************************************)
TypesInSync == phase = "idle" /\ ~torn => intact /\ literal = Listed(table)

(***************************************************************************)
(* "Existing targets, aliases and manual entries are preserved untouched"  *)
(* (augment's docstring): a name that resolves in the old table resolves   *)
(* to the same profile in the one --augment puts together, also a name     *)
(* that only the normalising fallback finds.                               *)
(***************************************************************************)
SameMeaning(old, new) ==
    \A n \in Names : Resolve(old, n) # NoName =>
        /\ Resolve(new, n) = Resolve(old, n)
        /\ new.targets[Resolve(old, n)] = old.targets[Resolve(old, n)]

AugmentKeepsNames ==
    [][phase = "augment" /\ phase' # "idle" => SameMeaning(table, draft')]_vars
=============================================================================
