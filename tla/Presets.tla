------------------------------ MODULE Presets ------------------------------
(***************************************************************************)
(* The table of impersonation presets and how a name is looked up in it    *)
(* (httpz/presets.py).                                                     *)
(*                                                                         *)
(* A table is a record of two dictionaries: targets, from a name to its    *)
(* profile, and aliases, from a name to the name of a target.  A profile   *)
(* is the browser family and one value for the triple (JA3, HTTP/2         *)
(* fingerprint, User-Agent), which is what the scraper compares.           *)
(***************************************************************************)
CONSTANTS
    Names,   \* preset names, whatever their spelling
    NoName,  \* the lookup failed
    NormOf   \* NormOf[n]: n without "_" and ".", in lower case

ASSUME NormAssumption ==
    /\ NoName \notin Names
    /\ NormOf \in [Names -> Names]
    /\ \A n \in Names : NormOf[NormOf[n]] = NormOf[n]

\* The dictionary d with d[k] = v.
Put(d, k, v) == [x \in DOMAIN d \cup {k} |-> IF x = k THEN v ELSE d[x]]

\* d.setdefault(k, v)
SetDefault(d, k, v) == IF k \in DOMAIN d THEN d ELSE Put(d, k, v)

\* An alias that leads to a target.
HasAlias(table, n) ==
    n \in DOMAIN table.aliases /\ table.aliases[n] \in DOMAIN table.targets

\* The name of the target whose profile resolve_impersonate(n) returns.
Resolve(table, n) ==
    IF n \in DOMAIN table.targets THEN n
    ELSE IF HasAlias(table, n) THEN table.aliases[n]
    ELSE IF HasAlias(table, NormOf[n]) THEN table.aliases[NormOf[n]]
    ELSE NoName

\* list_impersonate_targets, and the names BrowserTypeLiteral is generated from
Listed(table) == DOMAIN table.targets \cup DOMAIN table.aliases
=============================================================================
