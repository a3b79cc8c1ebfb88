------------------------------ MODULE Catalog ------------------------------
(***************************************************************************)
(* A book of one seller's catalogue (backend/internal/catalog): its pickup *)
(* locations, its buyer addresses or its products, with labels (of a       *)
(* product, its SKU) that are unique among the rows not deleted and, but   *)
(* for products, at most one default.  The books are tables that no        *)
(* statement combines.                                                     *)
(*                                                                         *)
(* Create, Upsert, SetDefault, Deactivate and the deletions are            *)
(* transactions whose statements lock every row they depend on, or fail on *)
(* a unique index: a step each.  Update reads a row without a lock,        *)
(* applies the patch in memory and writes every column back: two steps.    *)
(***************************************************************************)
EXTENDS Naturals, FiniteSets

CONSTANTS
    Ids,        \* row ids
    Labels,     \* labels and SKUs
    Contacts,   \* values of all the other columns a patch can set
    Requests,   \* Update calls in flight
    Null

VARIABLES
    book,        \* the table
    row,         \* the rows by id
    update,      \* the Update calls
    said,        \* history: what the last patch, Create or Upsert asked for, by id
    overlapped,  \* history: ids with two Updates at the same time
    misnamed     \* history: the last step was a SetDefault that named no live row

catalogVars == <<book, row, update, said, overlapped, misnamed>>

Data == [label : Labels, contact : Contacts]

PickupLocation == [data : Data, default : BOOLEAN, active : BOOLEAN, deleted : BOOLEAN]
BuyerAddress == [data : Data, default : BOOLEAN, deleted : BOOLEAN]
Product == [data : Data, active : BOOLEAN, deleted : BOOLEAN]

PickupCreateRequest == [data : Data, default : BOOLEAN, active : BOOLEAN]
BuyerAddressCreateRequest == [data : Data, default : BOOLEAN]
ProductUpsertRequest == [data : Data, active : BOOLEAN]

(* nil fields of a patch leave the column alone. *)
Patch == [label : Labels \cup {Null}, contact : Contacts \cup {Null}]
Update == [id : Ids, data : Data]

(* NULL is no value of a column, and a row that is not there is no row. *)
ASSUME CatalogAssumption ==
    /\ Null \notin Ids \cup Labels \cup Contacts
    /\ Null \notin PickupLocation \cup BuyerAddress \cup Product \cup Update \cup Data

CatalogInit ==
    /\ book \in {"pickup_location", "buyer_address", "product"}
    /\ row = [i \in Ids |-> Null]
    /\ update = [r \in Requests |-> Null]
    /\ said = [i \in Ids |-> Null]
    /\ overlapped = {}
    /\ misnamed = FALSE

LiveRow(i) == row[i] # Null /\ ~row[i].deleted
Defaults == {i \in Ids : book # "product" /\ LiveRow(i) /\ row[i].default}

(* The partial unique index on (seller_id, label), or on (seller_id, sku). *)
LabelFree(i, label) == \A j \in Ids \ {i} : LiveRow(j) => row[j].data.label # label

(* Without the partial unique index on is_default. *)
DefaultFreeBug(i) == TRUE

(* The partial unique index on is_default. *)
DefaultFree(i) == Defaults \subseteq {i}

-----------------------------------------------------------------------------
(* Create and Upsert *)

Inserted(i, rows) ==
    /\ row[i] = Null
    /\ row' = rows
    /\ said' = [said EXCEPT ![i] = rows[i].data]
    /\ misnamed' = FALSE
    /\ UNCHANGED <<book, update, overlapped>>

InsertPickup(req) == [data |-> req.data, default |-> req.default,
                      active |-> req.active, deleted |-> FALSE]

(* pickupServiceImpl.Create: an is_default beside another one is refused. *)
CreatePickup(i, req) ==
    /\ book = "pickup_location"
    /\ LabelFree(i, req.data.label)
    /\ req.default => DefaultFree(i)
    /\ Inserted(i, [row EXCEPT ![i] = InsertPickup(req)])

CreatePickupHandler(i) == \E req \in PickupCreateRequest : CreatePickup(i, req)

(* One row of a table whose default is from now on dflt, Null for none. *)
Redefault(j, dflt) == [row[j] EXCEPT !.default = (j = dflt)]

(* Clears the default whatever the request asks for. *)
ClearsBug(default) == TRUE

Clears(default) == default

InsertBuyerAddress(req) == [data |-> req.data, default |-> req.default, deleted |-> FALSE]

(* buyerAddressServiceImpl.Create: the others' is_default goes first.  Its
   checks of the request leave the requests that are modelled.              *)
CreateBuyer(i, req) ==
    /\ book = "buyer_address"
    /\ LabelFree(i, req.data.label)
    /\ Inserted(i, [j \in Ids |->
          CASE j = i -> InsertBuyerAddress(req)
            [] j # i /\ Clears(req.default) /\ LiveRow(j) -> Redefault(j, Null)
            [] OTHER -> row[j]])

CreateBuyerAddressHandler(i) == \E req \in BuyerAddressCreateRequest : CreateBuyer(i, req)

(* The row that the ON CONFLICT of an upsert finds. *)
HasSKU(i, sku) == LiveRow(i) /\ row[i].data.label = sku

(* A product of a new SKU is inserted; of a known one, rewritten. *)
UpsertProduct(i, req) ==
    /\ book = "product"
    /\ IF HasSKU(i, req.data.label)
       THEN /\ row' = [row EXCEPT ![i].data = req.data, ![i].active = req.active]
            /\ said' = [said EXCEPT ![i] = req.data]
            /\ misnamed' = FALSE
            /\ UNCHANGED <<book, update, overlapped>>
       ELSE /\ LabelFree(i, req.data.label)
            /\ Inserted(i, [row EXCEPT ![i] =
                   [data |-> req.data, active |-> req.active, deleted |-> FALSE]])

UpsertProductHandler(i) == \E req \in ProductUpsertRequest : UpsertProduct(i, req)

-----------------------------------------------------------------------------
(* Default, deactivation and deletion *)

Rewritten(rows) ==
    /\ row' = rows
    /\ misnamed' = FALSE
    /\ UNCHANGED <<book, update, said, overlapped>>

(* One UPDATE over the live rows of the table; how many it changed is not
   looked at.  The unique index is checked row by row, so the statement can
   also fail, when it reaches the new default before the old one.           *)
SetDefaultRows(i) == [j \in Ids |-> IF LiveRow(j) THEN Redefault(j, i) ELSE row[j]]

SetDefault(i) ==
    /\ row' = SetDefaultRows(i)
    /\ misnamed' = ~LiveRow(i)
    /\ UNCHANGED <<book, update, said, overlapped>>

SetDefaultPickup(i) == book = "pickup_location" /\ SetDefault(i)

SetDefaultBuyer(i) == book = "buyer_address" /\ SetDefault(i)

(* Default or not. *)
DeactivatePickup(i) ==
    /\ book = "pickup_location"
    /\ row[i] # Null
    /\ Rewritten([row EXCEPT ![i].active = FALSE])

SoftDeletePickup(i) ==
    /\ book = "pickup_location"
    /\ row[i] # Null
    /\ Rewritten([row EXCEPT ![i].deleted = TRUE, ![i].active = FALSE, ![i].default = FALSE])

SoftDeleteBuyer(i) ==
    /\ book = "buyer_address"
    /\ row[i] # Null
    /\ Rewritten([row EXCEPT ![i].deleted = TRUE, ![i].default = FALSE])

(* Of a SKU that is not there, nothing; how many rows changed is not looked at. *)
DeleteProduct(sku) ==
    /\ book = "product"
    /\ Rewritten([i \in Ids |-> IF HasSKU(i, sku)
                                THEN [row[i] EXCEPT !.deleted = TRUE, !.active = FALSE]
                                ELSE row[i]])

-----------------------------------------------------------------------------
(* Update, of pickup locations and of buyer addresses *)

Updating(i) == \E r \in Requests : update[r] # Null /\ update[r].id = i

(* A patch writes its nil fields too. *)
PatchedBug(d, p) == [label |-> IF p.label = Null THEN d.label ELSE p.label,
                     contact |-> IF p.contact = Null THEN CHOOSE c \in Contacts : TRUE
                                 ELSE p.contact]

Patched(d, p) == [label |-> IF p.label = Null THEN d.label ELSE p.label,
                  contact |-> IF p.contact = Null THEN d.contact ELSE p.contact]

(* The read, and the patch applied to what it found. *)
UpdateReads(r, i, p) ==
    /\ book # "product"
    /\ update[r] = Null
    /\ LiveRow(i)
    /\ update' = [update EXCEPT ![r] = [id |-> i, data |-> Patched(row[i].data, p)]]
    /\ said' = [said EXCEPT ![i] =
          [label |-> IF p.label = Null THEN @.label ELSE p.label,
           contact |-> IF p.contact = Null THEN @.contact ELSE p.contact]]
    /\ overlapped' = IF Updating(i) THEN overlapped \cup {i} ELSE overlapped
    /\ misnamed' = FALSE
    /\ UNCHANGED <<book, row>>

(* Every column back.  The WHERE does not ask whether the row is deleted by
   now; a pickup that is fails the read that follows, and is rolled back.   *)
UpdateWrites(r) ==
    LET i == update[r].id IN
    /\ update[r] # Null
    /\ book = "pickup_location" => LiveRow(i)
    /\ LiveRow(i) => LabelFree(i, update[r].data.label)
    /\ row' = [row EXCEPT ![i].data = update[r].data]
    /\ update' = [update EXCEPT ![r] = Null]
    /\ misnamed' = FALSE
    /\ UNCHANGED <<book, said, overlapped>>

(* A label that is taken, a deleted pickup, an error: nothing is written. *)
UpdateFails(r) ==
    /\ update[r] # Null
    /\ said' = [said EXCEPT ![update[r].id] = row[update[r].id].data]
    /\ update' = [update EXCEPT ![r] = Null]
    /\ misnamed' = FALSE
    /\ UNCHANGED <<book, row, overlapped>>

-----------------------------------------------------------------------------
UpdateStep(r) ==
    \/ \E i \in Ids : \E p \in Patch : UpdateReads(r, i, p)
    \/ UpdateWrites(r)
    \/ UpdateFails(r)

PickupStep(i) ==
    \/ CreatePickupHandler(i)
    \/ SetDefaultPickup(i)
    \/ DeactivatePickup(i)
    \/ SoftDeletePickup(i)

BuyerAddressStep(i) ==
    \/ CreateBuyerAddressHandler(i)
    \/ SetDefaultBuyer(i)
    \/ SoftDeleteBuyer(i)

CatalogNext ==
    \/ \E i \in Ids : PickupStep(i) \/ BuyerAddressStep(i) \/ UpsertProductHandler(i)
    \/ \E sku \in Labels : DeleteProduct(sku)
    \/ \E r \in Requests : UpdateStep(r)

CatalogSpec == CatalogInit /\ [][CatalogNext]_catalogVars

-----------------------------------------------------------------------------
(* The indexes' promise, whichever way a row became the default or got its
   label: one default, and no label or SKU twice among the rows not deleted. *)
OneDefault ==
    /\ Cardinality(Defaults) <= 1
    /\ \A i, j \in Ids :
          LiveRow(i) /\ LiveRow(j) /\ row[i].data.label = row[j].data.label => i = j

(* No patch is lost: a row that no Update is at work on has, column by
   column, what its Create, its Upserts and its patches asked for, although an Update
   writes back columns it was not asked to change; unless two Updates of the
   row overlapped, when the later one undoes the earlier.                   *)
PatchesSurvive ==
    \A i \in Ids : LiveRow(i) /\ ~Updating(i) /\ i \notin overlapped => row[i].data = said[i]

(* Who has a default keeps one, until it is deleted or a SetDefault names a
   row that is not there (which clears the default and reports success).    *)
DefaultNotLost ==
    [][Defaults # {} /\ Defaults' = {} =>
          misnamed' \/ \E i \in Defaults : row'[i].deleted]_catalogVars
=============================================================================
