---------------------------- MODULE VendorCatalog ----------------------------
(* The vendor list of one organisation: vendors created by hand and by the   *)
(* import of an SBOM, renamed, mapped to another product and deleted, within *)
(* what the plan allows.                                                     *)
(*                                                                           *)
(* A request checks, then commits; others may come in between.               *)
EXTENDS Integers, Sequences, FiniteSets

CONSTANTS
  Names,          \* vendor names
  Fold,           \* Fold[n] stands for n whatever its case (casefold)
  Cpes,           \* CPEs as they are written, in a form or in an SBOM
  Typed,          \* the ones that are typed in a form
  Called,         \* the names that are typed in a form
  NoCpe,          \* none is given
  Products,       \* CPE prefixes in normal form, members of Cpes too
  Product,        \* the product that a CPE names (_cpe_fields), or NoCpe
  Label,          \* humanize_product: the name that a product gets
  MaxVendors,     \* what the plan allows
  MaxImport,      \* MAX_IMPORT: rows of one import
  Editors,        \* requests that can be served at the same time
  Documents,      \* SBOMs: sequences of components
  MaxRows         \* bound: vendors that are ever created

NoVendor == [name |-> NoCpe, cpe |-> NoCpe]
Components == [name : Names, cpe : Cpes \cup {NoCpe}]

ProductAssumption ==
  /\ NoCpe \notin Cpes /\ Products \cup Typed \subseteq Cpes
  /\ Product \in [Cpes -> Products \cup {NoCpe}]
  /\ \A p \in Products : Product[p] = p
NameAssumption ==
  Fold \in [Names -> Names] /\ Label \in [Products -> Names] /\ NoCpe \notin Names /\ Called \subseteq Names
EditorAssumption == IsFiniteSet(Editors) /\ Editors # {}
LimitAssumption == MaxVendors \in Nat /\ MaxImport \in Nat \ {0} /\ MaxRows \in Nat
DocumentAssumption == Documents \subseteq Seq(Components)

VARIABLES
  vendors,      \* the rows by id; NoVendor: deleted
  editor        \* the requests

catalogVars == <<vendors, editor>>

Ready == [pc |-> "idle", kind |-> "none", id |-> 0, row |-> NoVendor, items |-> <<>>]

Init == vendors = <<>> /\ editor = [e \in Editors |-> Ready]

Live == {i \in DOMAIN vendors : vendors[i] # NoVendor}
Taken(name) == \E i \in Live : vendors[i].name = name
------------------------------------------------------------------------------
(* core/sbom.py: components to candidates.                                   *)

Normal(cpe) == IF cpe = NoCpe THEN NoCpe ELSE Product[cpe]

Candidate(c) ==
  LET product == Normal(c.cpe)
  IN [name |-> IF product = NoCpe THEN c.name ELSE Label[product], cpe |-> product]
SameGroup(a, b) == a.cpe = b.cpe /\ (a.cpe = NoCpe => Fold[a.name] = Fold[b.name])

\* One candidate for each product and one for each name without a product,
\* those that have a product first.
With(list, new) == IF \E i \in DOMAIN list : SameGroup(list[i], new) THEN list ELSE Append(list, new)
Grouped(groups, c) ==
  LET new == Candidate(c)
  IN IF new.cpe = NoCpe THEN [groups EXCEPT !.named = With(@, new)] ELSE [groups EXCEPT !.mapped = With(@, new)]
build_candidates(components) ==
  LET groups[k \in 0 .. Len(components)] ==
        IF k = 0 THEN [mapped |-> <<>>, named |-> <<>>] ELSE Grouped(groups[k - 1], components[k])
      all == groups[Len(components)]
  IN all.mapped \o all.named
------------------------------------------------------------------------------
(* sbom_service.py: the preview, and what an import creates.                 *)

\* _existing.  A prefix typed in a form may not be in normal form.
existing_names == {Fold[vendors[i].name] : i \in Live}
existing_prefixes ==
  {IF Normal(vendors[i].cpe) = NoCpe THEN vendors[i].cpe ELSE Normal(vendors[i].cpe) : i \in Live} \ {NoCpe}

\* The list lacks c.
Lacks(c) == Fold[c.name] \notin existing_names /\ (c.cpe = NoCpe \/ c.cpe \notin existing_prefixes)
Marking(acc, c) ==
  [seen |-> acc.seen \cup {Fold[c.name]},
   new |-> IF Lacks(c) /\ Fold[c.name] \notin acc.seen THEN Append(acc.new, c) ELSE acc.new]

\* The candidates that the preview calls new; the others exist already or have
\* the name of an earlier one.
\* Mutant of preview: the names of earlier candidates are not looked at.
preview_each(components) == SelectSeq(build_candidates(components), Lacks)
preview(components) ==
  LET candidates == build_candidates(components)
      acc[k \in 0 .. Len(candidates)] ==
        IF k = 0 THEN [seen |-> {}, new |-> <<>>] ELSE Marking(acc[k - 1], candidates[k])
  IN acc[Len(candidates)].new

\* import_vendors: the rows to insert.  A row whose CPE names no product, whose
\* name or whose product is there already is skipped.
Taking(acc, item) ==
  LET cpe == Normal(item.cpe)
      skipped == \/ item.cpe # NoCpe /\ cpe = NoCpe
                 \/ Fold[item.name] \in acc.names
                 \/ cpe # NoCpe /\ cpe \in acc.prefixes
  IN IF skipped THEN acc
     ELSE [names |-> acc.names \cup {Fold[item.name]},
           prefixes |-> acc.prefixes \cup {cpe},
           new |-> Append(acc.new, [name |-> item.name, cpe |-> cpe])]
imported(items) ==
  LET acc[k \in 0 .. Len(items)] ==
        IF k = 0 THEN [names |-> existing_names, prefixes |-> existing_prefixes, new |-> <<>>]
        ELSE Taking(acc[k - 1], items[k])
  IN acc[Len(items)].new
------------------------------------------------------------------------------
(* Requests: the checks.                                                     *)

\* require_vendor_capacity.
\* Mutant of RoomFor: an import may begin while there is room for one.
RoomForOne(n) == n = 0 \/ Cardinality(Live) < MaxVendors
RoomFor(n) == n = 0 \/ Cardinality(Live) + n <= MaxVendors

Checks(e, request) == editor[e].pc = "idle" /\ editor' = [editor EXCEPT ![e] = request] /\ UNCHANGED vendors

CheckCreate(e, row) ==
  /\ ~Taken(row.name) /\ RoomFor(1)
  /\ Checks(e, [Ready EXCEPT !.pc = "checked", !.kind = "create", !.items = <<row>>])

\* update_vendor, with the row as it will be.
CheckUpdate(e, i, row) ==
  /\ i \in Live
  /\ row.name = vendors[i].name \/ ~Taken(row.name)
  /\ Checks(e, [Ready EXCEPT !.pc = "checked", !.kind = "update", !.id = i, !.row = vendors[i], !.items = <<row>>])

CheckDelete(e, i) ==
  /\ i \in Live
  /\ Checks(e, [Ready EXCEPT !.pc = "checked", !.kind = "delete", !.id = i])

\* The rows that were kept of a preview, which may be out of date by now
\* (SbomImportRequest).
CheckImport(e, items) ==
  /\ items \in Seq(Components) /\ Len(items) \in 1 .. MaxImport
  /\ RoomFor(Len(imported(items)))
  /\ Checks(e, [Ready EXCEPT !.pc = "checked", !.kind = "import", !.items = imported(items)])
------------------------------------------------------------------------------
(* Requests: the commits.  Names are unique among the rows of a tenant.      *)

Commits(e, kinds) ==
  /\ editor[e].pc = "checked" /\ editor[e].kind \in kinds
  /\ editor' = [editor EXCEPT ![e] = Ready]

Insert(e) ==
  /\ Commits(e, {"create", "import"})
  /\ \A k \in DOMAIN editor[e].items : ~Taken(editor[e].items[k].name)
  /\ Len(vendors) + Len(editor[e].items) <= MaxRows
  /\ vendors' = vendors \o editor[e].items

\* Only the columns that differ from what was read are written.
Written(old, read, new) ==
  [name |-> IF new.name = read.name THEN old.name ELSE new.name,
   cpe |-> IF new.cpe = read.cpe THEN old.cpe ELSE new.cpe]
Update(e) ==
  LET i == editor[e].id
      row == Written(vendors[i], editor[e].row, editor[e].items[1])
  IN /\ Commits(e, {"update"})
     /\ i \in Live
     /\ \A j \in Live \ {i} : vendors[j].name # row.name
     /\ vendors' = [vendors EXCEPT ![i] = row]

\* Deleting a row that is gone already changes nothing.
Delete(e) ==
  /\ Commits(e, {"delete"})
  /\ vendors' = [vendors EXCEPT ![editor[e].id] = NoVendor]

\* The commit breaks a constraint, or the request fails.
RollBack(e) ==
  /\ editor[e].pc # "idle"
  /\ editor' = [editor EXCEPT ![e] = Ready]
  /\ UNCHANGED vendors

Forms == [name : Called, cpe : Typed \cup {NoCpe}]

Next ==
  \E e \in Editors :
    \/ \E row \in Forms : CheckCreate(e, row)
    \/ \E i \in Live, name \in Called : CheckUpdate(e, i, [vendors[i] EXCEPT !.name = name])
    \/ \E i \in Live, cpe \in Typed \cup {NoCpe} : CheckUpdate(e, i, [vendors[i] EXCEPT !.cpe = cpe])
    \/ \E i \in Live : CheckDelete(e, i)
    \/ \E doc \in Documents : CheckImport(e, build_candidates(doc))
    \/ Insert(e) \/ Update(e) \/ Delete(e) \/ RollBack(e)

Spec == Init /\ [][Next]_catalogVars
------------------------------------------------------------------------------
(* Properties.                                                               *)

\* The plan's limit is passed by the imports that overlap and no more, and
\* never by one request alone (entitlements.require_vendor_capacity).
SoftVendors == Cardinality(Live) <= MaxVendors + (Cardinality(Editors) - 1) * MaxImport

\* While nothing else changes the list, an import creates every row that the
\* preview has called new, as it was shown (sbom_service).
PreviewHolds ==
  (\A e \in Editors : editor[e] = Ready) => \A doc \in Documents : imported(preview(doc)) = preview(doc)
=============================================================================
