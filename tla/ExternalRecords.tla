---------------------------- MODULE ExternalRecords ----------------------------
(***************************************************************************)
(* What the external Favorites modules compute, without any input or       *)
(* output: how records of a document are bound to records of a provider,   *)
(* what an observation of the provider would change (the preview), and     *)
(* the plans a user can select from it.  A plan is a change of the card    *)
(* together with a change of the provenance, the set of the bindings.      *)
(* The card is the sequence of the leaf records of one document.  Of a     *)
(* binding's evidence nothing is kept: no decision reads it.               *)
(***************************************************************************)
EXTENDS Naturals, FiniteSets, Sequences

CONSTANTS
  MaxRecords,   \* bound: records on the card
  Identities    \* the provider's records

Fields == {"name", "tone"}
Values == {"a", "b"}
Bytes == [Fields -> Values]

\* A record's binding: where the record is, its bytes (their digest in the file),
\* who owns each field, and whether the whole record was detached.
Owners == {"unbound", "local", "external", "detached"}
State ==
  [at : 1 .. MaxRecords, bytes : Bytes, identity : Identities, owner : [Fields -> Owners],
   detached : BOOLEAN]
None == {[file |-> "absent"]}   \* unlike any set of bindings, the empty one too

\* _validate_record_set: one binding for a record, of either side.
Distinct(records) ==
  \A r1, r2 \in records : r1 # r2 => r1.at # r2.at /\ r1.identity # r2.identity

\* _parse_target: the record at the place must have the digest.
Rebinds(records, card) ==
  records # None =>
    /\ \A r \in records : r.at \in DOMAIN card /\ card[r.at] = r.bytes
    /\ Distinct(records)

\* --------------------------------------------------------------- the preview
\* An observed record: removed, or active with a value, an explicit absence or
\* nothing said for each field.
Observations ==
  [removed : {FALSE}, fields : [Fields -> Values \cup {"absent", "unsaid"}]]
    \cup [removed : {TRUE}, fields : [Fields -> {"unsaid"}]]

\* _detached_record_preview
DetachedChange == "local only"

\* _removed_record_preview
RemovedChange(r, f) ==
  CASE r.owner[f] = "unbound" -> "none"
    [] r.owner[f] = "external" -> "removed"
    [] OTHER -> "conflict"

\* _active_record_preview
ActiveChange(r, observed, f) ==
  CASE observed = "unsaid" -> IF r.owner[f] = "unbound" THEN "none" ELSE "local only"
    [] observed # "unsaid" /\ r.owner[f] = "unbound" ->
         IF observed = "absent" THEN "unchanged" ELSE "added"
    [] observed # "unsaid" /\ r.owner[f] \in {"local", "detached"} ->
         IF observed = r.bytes[f] THEN "local only" ELSE "conflict"
    [] observed # "unsaid" /\ r.owner[f] = "external" ->
         IF observed = "absent" THEN "removed"
         ELSE IF observed = r.bytes[f] THEN "unchanged" ELSE "replaced"

\* _bound_record_preview
Change(r, o, f) ==
  IF r.detached THEN DetachedChange
  ELSE IF o.removed THEN RemovedChange(r, f) ELSE ActiveChange(r, o.fields[f], f)

Conflicts(r, o) == \E f \in Fields : Change(r, o, f) = "conflict"
Removal(r, o) == ~r.detached /\ o.removed /\ ~Conflicts(r, o)

\* ------------------------------------------------------------------- plans
\* create_favorites_record_after, delete_favorites_record: the card with a record made at
\* a place, and without the one that was there.
CreatedAt(card, place, bytes) ==
  SubSeq(card, 1, place - 1) \o <<bytes>> \o SubSeq(card, place, Len(card))
DeletedAt(card, place) == SubSeq(card, 1, place - 1) \o SubSeq(card, place + 1, Len(card))

Swap(records, r, new) == (records \ {r}) \cup new
Shift(records, pivot, delta) ==
  {[r EXCEPT !.at = IF @ > pivot THEN @ + delta ELSE @] : r \in records}

Plan(kind, card, records, toCard, toRecords) ==
  [kind |-> kind, card |-> card, records |-> records, toCard |-> toCard, toRecords |-> toRecords]

\* _selected_field_state: a field of the provider's, or one that was not bound.
Selectable(r, f) == r.owner[f] \in {"unbound", "external"}

\* No other bound field may change with the selected one.
Alone(r, o, f) ==
  \A g \in Fields \ {f} :
    r.owner[g] # "unbound" => Change(r, o, g) \notin {"replaced", "removed"}

\* Mutant: a record with a conflict, or a field the user owns, can be accepted.
AcceptableAnyway(r, o, f) ==
  ~r.detached /\ ~o.removed /\ o.fields[f] \in Values

\* _require_selected_preview: in a record without conflicts.
Acceptable(r, o, f) ==
  /\ ~r.detached /\ ~o.removed /\ Selectable(r, f) /\ ~Conflicts(r, o) /\ Alone(r, o, f)
  /\ o.fields[f] \in Values
  /\ Change(r, o, f) \in {"added", "replaced", "unchanged"}

Accept(card, records, r, o, f) ==
  LET new == [r EXCEPT !.bytes[f] = o.fields[f], !.owner[f] = "external"]
  IN Plan("accept", card, records, [card EXCEPT ![r.at] = new.bytes], Swap(records, r, {new}))

\* plan_favorites_external_name_acceptance: only a name that is bound and replaced.
AcceptsName(r, o) == Acceptable(r, o, "name") /\ Change(r, o, "name") = "replaced"

NameAcceptances(card, records, o) ==
  {Accept(card, records, r, o, "name") : r \in {r \in records : AcceptsName(r, o)}}

FieldAcceptances(card, records, o) ==
  UNION {{Accept(card, records, r, o, f) : r \in {r \in records : Acceptable(r, o, f)}} : f \in Fields}

\* detach_favorites_external_field, detach_favorites_external_record
DetachField(r, f) == [r EXCEPT !.owner[f] = "detached"]
DetachRecord(r) ==
  [r EXCEPT !.detached = TRUE,
            !.owner = [f \in Fields |-> IF @[f] = "external" THEN "detached" ELSE @[f]]]

\* plan_favorites_external_refresh_detach, ..._record_keep_local
Detaches(card, records) ==
  UNION {{Plan("detach", card, records, card, Swap(records, r, {new})) :
            new \in {DetachRecord(r)} \cup {DetachField(r, f) : f \in {f \in Fields : r.owner[f] = "external"}}}
         : r \in {r \in records : ~r.detached}}

\* plan_favorites_external_refresh_record_import: an identity that is not bound yet;
\* the externally owned fields of the template are what was observed.
Bound(records) == IF records = None THEN {} ELSE records
Bindings == {[name |-> "external", tone |-> "unbound"]}
Imports(card, records, i, o) ==
  IF o.removed \/ o.fields["name"] \notin Values \/ Len(card) = MaxRecords
       \/ \E r \in Bound(records) : r.identity = i
  THEN {}
  ELSE {LET new == [at |-> anchor + 1, bytes |-> [name |-> o.fields["name"], tone |-> "a"],
                    identity |-> i, owner |-> owner, detached |-> FALSE]
        IN Plan("import", card, records, CreatedAt(card, anchor + 1, new.bytes),
                Shift(Bound(records), anchor, 1) \cup {new})
        : anchor \in DOMAIN card, owner \in Bindings}

\* plan_favorites_external_refresh_record_delete
Delete(card, records, r) ==
  Plan("delete", card, records, DeletedAt(card, r.at), Shift(records \ {r}, r.at, 0 - 1))
Deletions(card, records, o) ==
  {Delete(card, records, r) : r \in {r \in records : Removal(r, o)}}

\* What a user can select after one refresh.
PlansFrom(card, records) ==
  (IF records = None THEN {}
   ELSE Detaches(card, records)
          \cup UNION {NameAcceptances(card, records, o) \cup FieldAcceptances(card, records, o)
                        \cup Deletions(card, records, o) : o \in Observations})
    \cup UNION {Imports(card, records, i, o) : i \in Identities, o \in Observations}

\* ------------------------------------------------- what a plan must leave alone
Same(records, r) == {new \in records : new.identity = r.identity}

\* No plan changes a field the user owns, or gives it back to the provider; only
\* a record of which the provider owns every bound field is deleted; and what it
\* leads to fits together.
LeavesLocalAlone(p) ==
  \A r \in Bound(p.records) :
    \/ \E new \in Same(p.toRecords, r) :
         \A f \in Fields :
           r.detached \/ r.owner[f] \in {"local", "detached"} =>
             new.bytes[f] = r.bytes[f] /\ new.owner[f] = r.owner[f]
    \/ p.kind = "delete" /\ ~r.detached /\ \A f \in Fields : r.owner[f] \notin {"local", "detached"}

================================================================================
