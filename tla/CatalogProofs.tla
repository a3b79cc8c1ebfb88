--------------------------- MODULE CatalogProofs ---------------------------
(***************************************************************************)
(* Proofs about Catalog for books of any size and any number of Updates at *)
(* the same time.                                                          *)
(***************************************************************************)
EXTENDS Catalog, FiniteSetTheorems, TLAPS

RowOf(b) == CASE b = "pickup_location" -> PickupLocation
              [] b = "buyer_address" -> BuyerAddress
              [] b = "product" -> Product

CatalogTyped ==
    /\ book \in {"pickup_location", "buyer_address", "product"}
    /\ row \in [Ids -> RowOf(book) \cup {Null}]
    /\ update \in [Requests -> Update \cup {Null}]
    /\ said \in [Ids -> Data \cup {Null}]

DefaultsApart == \A i, j \in Defaults : i = j

LabelsApart ==
    \A i, j \in Ids :
        LiveRow(i) /\ LiveRow(j) /\ row[i].data.label = row[j].data.label => i = j

(* An Update is of a row that is there, and a row has what was said. *)
Writes(r, i) == update[r] # Null /\ update[r].id = i

RowSaid(i) ==
    /\ row[i] # Null => said[i] # Null
    /\ \A r \in Requests : Writes(r, i) => row[i] # Null /\ book # "product"
    /\ i \notin overlapped =>
          /\ \A r, q \in Requests : Writes(r, i) /\ Writes(q, i) => r = q
          /\ \A r \in Requests : Writes(r, i) => update[r].data = said[i]
          /\ LiveRow(i) /\ ~Updating(i) => row[i].data = said[i]

CatalogInv ==
    /\ CatalogTyped
    /\ DefaultsApart
    /\ LabelsApart
    /\ \A i \in Ids : RowSaid(i)

-----------------------------------------------------------------------------
LEMMA RowShape ==
    ASSUME NEW b \in {"pickup_location", "buyer_address", "product"}, NEW x \in RowOf(b)
    PROVE  /\ x # Null /\ x.data \in Data /\ x.deleted \in BOOLEAN
           /\ b # "product" => x.default \in BOOLEAN
BY CatalogAssumption DEF RowOf, PickupLocation, BuyerAddress, Product

(* What a step may do to the default. *)
DefaultKept ==
    Defaults # {} /\ Defaults' = {} => misnamed' \/ \E i \in Defaults : row'[i].deleted

(* One row is written: a new one, or one that is there. *)
LEMMA OneRow ==
    ASSUME CatalogInv, NEW i \in Ids, NEW x \in RowOf(book), book' = book,
           row' = [row EXCEPT ![i] = x],
           \/ LabelFree(i, x.data.label)
           \/ LiveRow(i) /\ row[i].data.label = x.data.label
           \/ x.deleted,
           (book # "product" /\ ~x.deleted /\ x.default) => (DefaultFree(i) \/ i \in Defaults)
    PROVE  /\ row' \in [Ids -> RowOf(book) \cup {Null}]
           /\ DefaultsApart' /\ LabelsApart'
<1>1. row' \in [Ids -> RowOf(book) \cup {Null}]
  BY DEF CatalogInv, CatalogTyped
<1>2. row'[i] = x /\ \A j \in Ids \ {i} : row'[j] = row[j]
  BY DEF CatalogInv, CatalogTyped
<1>3. \A j \in Ids \ {i} : LiveRow(j)' <=> LiveRow(j)
  BY <1>2 DEF LiveRow
<1>4. LiveRow(i)' => ~x.deleted
  BY <1>2 DEF LiveRow
<1>5. LabelsApart'
  BY <1>2, <1>3, <1>4 DEF LabelsApart, LabelFree, CatalogInv
<1>6. \A j \in Ids \ {i} : j \in Defaults' => j \in Defaults
  BY <1>2, <1>3 DEF Defaults
<1>7. i \in Defaults' => DefaultFree(i) \/ i \in Defaults
  BY <1>2, <1>4 DEF Defaults
<1>8. DefaultsApart'
  BY <1>6, <1>7 DEF DefaultsApart, DefaultFree, CatalogInv, Defaults
<1> QED
  BY <1>1, <1>5, <1>8

(* The updates and what was said, when a step leaves them alone. *)
LEMMA SaidKept ==
    ASSUME CatalogInv, NEW i \in Ids, UNCHANGED <<book, update, said, overlapped>>,
           row[i] # Null <=> row'[i] # Null,
           LiveRow(i)' => LiveRow(i) /\ row'[i].data = row[i].data
    PROVE  RowSaid(i)'
<1>1. RowSaid(i) /\ (Updating(i)' <=> Updating(i))
  BY DEF CatalogInv, Updating
<1>2. \A r \in Requests : Writes(r, i)' <=> Writes(r, i)
  BY DEF Writes
<1> QED
  BY <1>1, <1>2 DEF RowSaid

(* A row that becomes what is said of it, when no Update is at work on it. *)
LEMMA SaidAnew ==
    ASSUME CatalogInv, NEW i \in Ids, UNCHANGED <<book, update, overlapped>>,
           \A r \in Requests : ~Writes(r, i),
           row'[i] # Null, said'[i] # Null, row'[i].data = said'[i]
    PROVE  RowSaid(i)'
<1>1. \A r \in Requests : ~Writes(r, i)'
  BY DEF Writes
<1> QED
  BY <1>1 DEF RowSaid

-----------------------------------------------------------------------------
(* Inserts *)

LEMMA InsertSaid ==
    ASSUME CatalogInv, NEW i \in Ids, NEW rows \in [Ids -> RowOf(book) \cup {Null}],
           Inserted(i, rows), rows[i] \in RowOf(book),
           \A j \in Ids \ {i} :
              /\ rows[j] # Null <=> row[j] # Null
              /\ LiveRow(j)' => LiveRow(j) /\ rows[j].data = row[j].data,
           DefaultsApart', LabelsApart'
    PROVE  CatalogInv'
<1>1. row' = rows /\ row[i] = Null /\ UNCHANGED <<book, update, overlapped>>
  BY DEF Inserted
<1>2. rows[i] # Null /\ rows[i].data \in Data
  BY RowShape DEF CatalogInv, CatalogTyped
<1>3. said' = [said EXCEPT ![i] = rows[i].data]
  BY DEF Inserted
<1>4. said' \in [Ids -> Data \cup {Null}] /\ said'[i] = rows[i].data
      /\ \A j \in Ids \ {i} : said'[j] = said[j]
  BY <1>2, <1>3 DEF CatalogInv, CatalogTyped
<1>5. CatalogTyped'
  BY <1>1, <1>4 DEF CatalogInv, CatalogTyped
<1>6. RowSaid(i)'
  <2>1. \A r \in Requests : ~Writes(r, i)
    BY <1>1 DEF CatalogInv, RowSaid
  <2>2. rows[i].data # Null
    BY <1>2, CatalogAssumption
  <2> QED
    BY <1>1, <1>2, <1>4, <2>1, <2>2, SaidAnew
<1>7. ASSUME NEW j \in Ids \ {i} PROVE RowSaid(j)'
  <2>1. RowSaid(j) /\ (Updating(j)' <=> Updating(j)) /\ said'[j] = said[j]
    BY <1>1, <1>4 DEF CatalogInv, Updating
  <2>2. \A r \in Requests : Writes(r, j)' <=> Writes(r, j)
    BY <1>1 DEF Writes
  <2>3. /\ rows[j] # Null <=> row[j] # Null
        /\ LiveRow(j)' => LiveRow(j) /\ rows[j].data = row[j].data
    OBVIOUS
  <2> QED
    BY <1>1, <2>1, <2>2, <2>3 DEF RowSaid
<1> QED
  BY <1>5, <1>6, <1>7 DEF CatalogInv

LEMMA CreatePickupKeeps ==
    ASSUME CatalogInv, NEW i \in Ids, CreatePickupHandler(i)
    PROVE  CatalogInv' /\ DefaultKept
<1>1. PICK req \in PickupCreateRequest : CreatePickup(i, req)
  BY DEF CreatePickupHandler
<1> DEFINE x == InsertPickup(req)
           rows == [row EXCEPT ![i] = x]
<1>2. book = "pickup_location" /\ Inserted(i, rows)
  BY <1>1 DEF CreatePickup
<1>3. x \in RowOf(book) /\ x.data = req.data /\ x.default = req.default
  BY <1>2 DEF InsertPickup, RowOf, PickupLocation, PickupCreateRequest
<1>4. LabelFree(i, x.data.label) /\ (x.default => DefaultFree(i))
  BY <1>1, <1>3 DEF CreatePickup
<1> HIDE DEF x
<1>5. row' = rows /\ row[i] = Null /\ book' = book
  BY <1>2 DEF Inserted
<1>6. rows \in [Ids -> RowOf(book) \cup {Null}] /\ DefaultsApart' /\ LabelsApart'
  BY <1>3, <1>4, <1>5, OneRow
<1>7. rows[i] = x /\ \A j \in Ids \ {i} : rows[j] = row[j]
  BY DEF CatalogInv, CatalogTyped
<1> HIDE DEF rows
<1>8. \A j \in Ids \ {i} : LiveRow(j)' <=> LiveRow(j)
  BY <1>5, <1>7 DEF LiveRow
<1>9. CatalogInv'
  BY <1>2, <1>3, <1>6, <1>7, <1>8, InsertSaid
<1>10. Defaults \subseteq Defaults'
  BY <1>5, <1>7, <1>8 DEF Defaults, LiveRow
<1> QED
  BY <1>9, <1>10 DEF DefaultKept

LEMMA RedefaultRow ==
    ASSUME CatalogInv, book # "product", NEW j \in Ids, row[j] # Null, NEW d
    PROVE  /\ Redefault(j, d) \in RowOf(book)
           /\ Redefault(j, d).data = row[j].data
           /\ Redefault(j, d).deleted = row[j].deleted
           /\ Redefault(j, d).default <=> j = d
<1>1. row[j] \in RowOf(book)
  BY DEF CatalogInv, CatalogTyped
<1>2. CASE book = "pickup_location"
  BY <1>1, <1>2 DEF Redefault, RowOf, PickupLocation
<1>3. CASE book = "buyer_address"
  BY <1>1, <1>3 DEF Redefault, RowOf, BuyerAddress
<1> QED
  BY <1>2, <1>3 DEF CatalogInv, CatalogTyped

LEMMA CreateBuyerKeeps ==
    ASSUME CatalogInv, NEW i \in Ids, CreateBuyerAddressHandler(i)
    PROVE  CatalogInv' /\ DefaultKept
<1>1. PICK req \in BuyerAddressCreateRequest : CreateBuyer(i, req)
  BY DEF CreateBuyerAddressHandler
<1> DEFINE x == InsertBuyerAddress(req)
           rows == [j \in Ids |->
                      CASE j = i -> InsertBuyerAddress(req)
                        [] j # i /\ Clears(req.default) /\ LiveRow(j) -> Redefault(j, Null)
                        [] OTHER -> row[j]]
<1>2. book = "buyer_address" /\ Inserted(i, rows) /\ LabelFree(i, req.data.label)
  BY <1>1 DEF CreateBuyer
<1>3. /\ x \in RowOf(book) /\ x.data = req.data
      /\ x.default = req.default /\ x.deleted = FALSE
  BY <1>2 DEF InsertBuyerAddress, RowOf, BuyerAddress, BuyerAddressCreateRequest
<1>4. row' = rows /\ row[i] = Null /\ book' = book
  BY <1>2 DEF Inserted
<1>5. rows[i] = x
  OBVIOUS
<1> HIDE DEF x
<1>6. \A j \in Ids \ {i} :
          \/ rows[j] = row[j] /\ (req.default => ~LiveRow(j))
          \/ req.default /\ LiveRow(j) /\ rows[j] = Redefault(j, Null)
  BY DEF Clears
<1> DEFINE Same(j) ==
             /\ rows[j] \in RowOf(book) \cup {Null}
             /\ rows[j] # Null <=> row[j] # Null
             /\ (rows[j] # Null /\ ~rows[j].deleted) <=> LiveRow(j)
             /\ rows[j] # Null => rows[j].data = row[j].data
             /\ req.default /\ LiveRow(j) => ~rows[j].default
             /\ ~req.default => rows[j] = row[j]
<1>7. ASSUME NEW j \in Ids \ {i} PROVE Same(j)
  <2> HIDE DEF rows
  <2>1. CASE rows[j] = row[j] /\ (req.default => ~LiveRow(j))
    BY <2>1 DEF CatalogInv, CatalogTyped, LiveRow
  <2>2. CASE req.default /\ LiveRow(j) /\ rows[j] = Redefault(j, Null)
    <3>1. row[j] # Null /\ j # Null
      BY <2>2, CatalogAssumption DEF LiveRow
    <3>2. Redefault(j, Null) # Null
      BY <1>2, <3>1, RedefaultRow, RowShape DEF CatalogInv, CatalogTyped
    <3> QED
      BY <1>2, <2>2, <3>1, <3>2, RedefaultRow DEF LiveRow
  <2> QED
    BY <1>6, <2>1, <2>2
<1>8. rows \in [Ids -> RowOf(book) \cup {Null}]
  <2>1. \A j \in Ids : rows[j] \in RowOf(book) \cup {Null}
    BY <1>3, <1>5, <1>7
  <2> QED
    BY <2>1
<1> HIDE DEF rows
<1>9. \A j \in Ids \ {i} : LiveRow(j)' <=> LiveRow(j)
  BY <1>4, <1>7 DEF LiveRow
<1>10. \A j \in Ids \ {i} : LiveRow(j) => row'[j].data = row[j].data
  BY <1>4, <1>7 DEF LiveRow
<1>11. LabelsApart'
  BY <1>2, <1>3, <1>4, <1>5, <1>9, <1>10 DEF CatalogInv, LabelsApart, LabelFree
<1>12. CASE req.default
  <2>1. Defaults' \subseteq {i}
    BY <1>4, <1>7, <1>9, <1>12 DEF Defaults
  <2>2. i \in Defaults'
    <3>1. row'[i] # Null /\ ~row'[i].deleted /\ row'[i].default
      BY <1>2, <1>3, <1>4, <1>5, <1>12, RowShape
    <3> QED
      BY <1>2, <1>4, <3>1 DEF Defaults, LiveRow
  <2>3. DefaultsApart' /\ DefaultKept
    BY <2>1, <2>2 DEF DefaultsApart, DefaultKept
  <2> QED
    BY <1>2, <1>3, <1>5, <1>7, <1>8, <1>9, <1>11, <2>3, InsertSaid
<1>13. CASE ~req.default
  <2>1. i \notin Defaults' /\ i \notin Defaults
    BY <1>3, <1>4, <1>5, <1>13 DEF Defaults, LiveRow
  <2>2. \A j \in Ids \ {i} : j \in Defaults' <=> j \in Defaults
    BY <1>4, <1>7, <1>9, <1>13 DEF Defaults
  <2>3. Defaults' = Defaults
    BY <2>1, <2>2 DEF Defaults
  <2>4. DefaultsApart' /\ DefaultKept
    BY <2>3 DEF DefaultsApart, DefaultKept, CatalogInv
  <2> QED
    BY <1>2, <1>3, <1>5, <1>7, <1>8, <1>9, <1>11, <2>4, InsertSaid
<1> QED
  BY <1>12, <1>13

(* A book of products has no default. *)
LEMMA NoDefault ==
    ASSUME book = "product", book' = book
    PROVE  Defaults = {} /\ Defaults' = {} /\ DefaultKept
BY DEF Defaults, DefaultKept

LEMMA UpsertKeeps ==
    ASSUME CatalogInv, NEW i \in Ids, UpsertProductHandler(i)
    PROVE  CatalogInv' /\ DefaultKept
<1>1. PICK req \in ProductUpsertRequest : UpsertProduct(i, req)
  BY DEF UpsertProductHandler
<1>2. book = "product" /\ book' = book
  BY <1>1 DEF UpsertProduct, Inserted
<1>3. DefaultKept
  BY <1>2, NoDefault
<1>4. CASE HasSKU(i, req.data.label)
  <2> DEFINE x == [row[i] EXCEPT !.data = req.data, !.active = req.active]
  <2>1. row[i] \in Product /\ LiveRow(i) /\ row[i].data.label = req.data.label
    BY <1>2, <1>4 DEF HasSKU, LiveRow, CatalogInv, CatalogTyped, RowOf
  <2>2. x \in RowOf(book) /\ x.data = req.data
    BY <1>2, <2>1 DEF RowOf, Product, ProductUpsertRequest
  <2>3. /\ row' = [row EXCEPT ![i] = x]
        /\ said' = [said EXCEPT ![i] = req.data]
        /\ UNCHANGED <<update, overlapped>>
    BY <1>1, <1>4 DEF UpsertProduct, CatalogInv, CatalogTyped
  <2> HIDE DEF x
  <2>4. row' \in [Ids -> RowOf(book) \cup {Null}] /\ DefaultsApart' /\ LabelsApart'
    BY <1>2, <2>1, <2>2, <2>3, OneRow
  <2>5. req.data \in Data /\ req.data # Null
    BY CatalogAssumption DEF ProductUpsertRequest
  <2>6. CatalogTyped'
    BY <1>2, <2>3, <2>4, <2>5 DEF CatalogInv, CatalogTyped
  <2>7. RowSaid(i)'
    <3>1. \A r \in Requests : ~Writes(r, i)
      BY <1>2 DEF CatalogInv, RowSaid
    <3>2. row'[i] = x /\ said'[i] = req.data /\ x # Null
      BY <2>2, <2>3, RowShape DEF CatalogInv, CatalogTyped
    <3> QED
      BY <1>2, <2>2, <2>3, <2>5, <3>1, <3>2, SaidAnew
  <2>8. ASSUME NEW j \in Ids \ {i} PROVE RowSaid(j)'
    <3>1. row'[j] = row[j] /\ said'[j] = said[j]
      BY <2>3 DEF CatalogInv, CatalogTyped
    <3>2. RowSaid(j) /\ (Updating(j)' <=> Updating(j)) /\ (LiveRow(j)' <=> LiveRow(j))
      BY <2>3, <3>1 DEF CatalogInv, Updating, LiveRow
    <3>3. \A r \in Requests : Writes(r, j)' <=> Writes(r, j)
      BY <2>3 DEF Writes
    <3> QED
      BY <1>2, <2>3, <3>1, <3>2, <3>3 DEF RowSaid
  <2> QED
    BY <1>3, <2>4, <2>6, <2>7, <2>8 DEF CatalogInv
<1>5. CASE ~HasSKU(i, req.data.label)
  <2> DEFINE x == [data |-> req.data, active |-> req.active, deleted |-> FALSE]
             rows == [row EXCEPT ![i] = x]
  <2>1. Inserted(i, rows) /\ LabelFree(i, req.data.label)
    BY <1>1, <1>5 DEF UpsertProduct
  <2>2. x \in RowOf(book) /\ x.data = req.data
    BY <1>2 DEF RowOf, Product, ProductUpsertRequest
  <2> HIDE DEF x
  <2>3. row' = rows
    BY <2>1 DEF Inserted
  <2>4. rows \in [Ids -> RowOf(book) \cup {Null}] /\ DefaultsApart' /\ LabelsApart'
    BY <1>2, <2>1, <2>2, <2>3, OneRow
  <2>5. rows[i] = x /\ \A j \in Ids \ {i} : rows[j] = row[j]
    BY DEF CatalogInv, CatalogTyped
  <2> HIDE DEF rows
  <2>6. \A j \in Ids \ {i} : LiveRow(j)' <=> LiveRow(j)
    BY <2>3, <2>5 DEF LiveRow
  <2> QED
    BY <1>3, <2>1, <2>2, <2>4, <2>5, <2>6, InsertSaid
<1> QED
  BY <1>4, <1>5

-----------------------------------------------------------------------------
(* Default, deactivation and deletion *)

(* A step that rewrites rows and keeps what is written in them. *)
LEMMA RewriteKeeps ==
    ASSUME CatalogInv, UNCHANGED <<book, update, said, overlapped>>,
           row' \in [Ids -> RowOf(book) \cup {Null}],
           \A j \in Ids : /\ row[j] # Null <=> row'[j] # Null
                          /\ LiveRow(j)' => LiveRow(j) /\ row'[j].data = row[j].data,
           DefaultsApart'
    PROVE  CatalogInv'
<1>1. LabelsApart'
  BY DEF CatalogInv, LabelsApart
<1>2. \A j \in Ids : RowSaid(j)'
  BY SaidKept
<1>3. CatalogTyped'
  BY DEF CatalogInv, CatalogTyped
<1> QED
  BY <1>1, <1>2, <1>3 DEF CatalogInv

LEMMA SetDefaultKeeps ==
    ASSUME CatalogInv, NEW i \in Ids, SetDefault(i), book # "product"
    PROVE  CatalogInv' /\ DefaultKept
<1>1. row' = SetDefaultRows(i) /\ UNCHANGED <<book, update, said, overlapped>>
  BY DEF SetDefault
<1>2. ASSUME NEW j \in Ids
      PROVE  /\ row'[j] \in RowOf(book) \cup {Null}
             /\ row[j] # Null <=> row'[j] # Null
             /\ LiveRow(j)' <=> LiveRow(j)
             /\ LiveRow(j) => row'[j].data = row[j].data /\ (row'[j].default <=> j = i)
  <2>1. CASE ~LiveRow(j)
    <3>1. row'[j] = row[j]
      BY <1>1, <2>1 DEF SetDefaultRows
    <3> QED
      BY <2>1, <3>1 DEF LiveRow, CatalogInv, CatalogTyped
  <2>2. CASE LiveRow(j)
    <3>1. row'[j] = Redefault(j, i) /\ row[j] # Null
      BY <1>1, <2>2 DEF SetDefaultRows, LiveRow
    <3>2. Redefault(j, i) # Null
      BY <3>1, RedefaultRow, RowShape DEF CatalogInv, CatalogTyped
    <3> QED
      BY <2>2, <3>1, <3>2, RedefaultRow DEF LiveRow
  <2> QED
    BY <2>1, <2>2
<1>3. row' \in [Ids -> RowOf(book) \cup {Null}]
  <2>1. row' = [j \in Ids |-> row'[j]]
    BY <1>1 DEF SetDefaultRows
  <2> QED
    BY <1>2, <2>1
<1>4. Defaults' \subseteq {i}
  BY <1>2 DEF Defaults
<1>5. LiveRow(i) => i \in Defaults'
  BY <1>1, <1>2 DEF Defaults
<1>6. misnamed' = ~LiveRow(i)
  BY DEF SetDefault
<1>7. DefaultsApart' /\ DefaultKept
  BY <1>4, <1>5, <1>6 DEF DefaultsApart, DefaultKept
<1> QED
  BY <1>1, <1>2, <1>3, <1>7, RewriteKeeps

(* One row is rewritten: x has its data, and is no default it was not. *)
LEMMA RewriteOne ==
    ASSUME CatalogInv, NEW i \in Ids, row[i] # Null, NEW x \in RowOf(book),
           Rewritten([row EXCEPT ![i] = x]), x.data = row[i].data,
           ~x.deleted => ~row[i].deleted,
           book # "product" => (x.default => row[i].default),
           x.deleted \/ (book # "product" => x.default = row[i].default /\ x.deleted = row[i].deleted)
    PROVE  CatalogInv' /\ DefaultKept
<1>1. row' = [row EXCEPT ![i] = x] /\ UNCHANGED <<book, update, said, overlapped>>
  BY DEF Rewritten
<1>2. row'[i] = x /\ \A j \in Ids \ {i} : row'[j] = row[j]
  BY <1>1 DEF CatalogInv, CatalogTyped
<1>3. x # Null
  BY RowShape DEF CatalogInv, CatalogTyped
<1>4. row' \in [Ids -> RowOf(book) \cup {Null}]
  BY <1>1 DEF CatalogInv, CatalogTyped
<1>5. \A j \in Ids : /\ row[j] # Null <=> row'[j] # Null
                     /\ LiveRow(j)' => LiveRow(j) /\ row'[j].data = row[j].data
  BY <1>2, <1>3 DEF LiveRow
<1>6. Defaults' \subseteq Defaults
  BY <1>1, <1>2, <1>5 DEF Defaults
<1>7. DefaultsApart'
  BY <1>6 DEF DefaultsApart, CatalogInv
<1>8. ASSUME NEW j \in Defaults, j \notin Defaults' PROVE row'[j].deleted
  BY <1>1, <1>2, <1>3, <1>8 DEF Defaults, LiveRow
<1>9. DefaultKept
  BY <1>8 DEF DefaultKept
<1> QED
  BY <1>1, <1>4, <1>5, <1>7, <1>9, RewriteKeeps

LEMMA DeactivateKeeps ==
    ASSUME CatalogInv, NEW i \in Ids, DeactivatePickup(i)
    PROVE  CatalogInv' /\ DefaultKept
<1> DEFINE x == [row[i] EXCEPT !.active = FALSE]
<1>1. book = "pickup_location" /\ row[i] # Null /\ row[i] \in PickupLocation
  BY DEF DeactivatePickup, CatalogInv, CatalogTyped, RowOf
<1>2. x \in RowOf(book) /\ x.data = row[i].data /\ x.deleted = row[i].deleted /\ x.default = row[i].default
  BY <1>1 DEF RowOf, PickupLocation
<1>3. Rewritten([row EXCEPT ![i] = x])
  BY DEF DeactivatePickup, Rewritten
<1> HIDE DEF x
<1> QED
  BY <1>1, <1>2, <1>3, RewriteOne

LEMMA SoftDeleteKeeps ==
    ASSUME CatalogInv, NEW i \in Ids, SoftDeletePickup(i) \/ SoftDeleteBuyer(i)
    PROVE  CatalogInv' /\ DefaultKept
<1>1. CASE SoftDeletePickup(i)
  <2> DEFINE x == [row[i] EXCEPT !.deleted = TRUE, !.active = FALSE, !.default = FALSE]
  <2>1. book = "pickup_location" /\ row[i] # Null /\ row[i] \in PickupLocation
    BY <1>1 DEF SoftDeletePickup, CatalogInv, CatalogTyped, RowOf
  <2>2. x \in RowOf(book) /\ x.data = row[i].data /\ x.deleted = TRUE /\ x.default = FALSE
    BY <2>1 DEF RowOf, PickupLocation
  <2>3. Rewritten([row EXCEPT ![i] = x])
    BY <1>1 DEF SoftDeletePickup, Rewritten
  <2> HIDE DEF x
  <2> QED
    BY <2>1, <2>2, <2>3, RewriteOne
<1>2. CASE SoftDeleteBuyer(i)
  <2> DEFINE x == [row[i] EXCEPT !.deleted = TRUE, !.default = FALSE]
  <2>1. book = "buyer_address" /\ row[i] # Null /\ row[i] \in BuyerAddress
    BY <1>2 DEF SoftDeleteBuyer, CatalogInv, CatalogTyped, RowOf
  <2>2. x \in RowOf(book) /\ x.data = row[i].data /\ x.deleted = TRUE /\ x.default = FALSE
    BY <2>1 DEF RowOf, BuyerAddress
  <2>3. Rewritten([row EXCEPT ![i] = x])
    BY <1>2 DEF SoftDeleteBuyer, Rewritten
  <2> HIDE DEF x
  <2> QED
    BY <2>1, <2>2, <2>3, RewriteOne
<1> QED
  BY <1>1, <1>2

LEMMA DeleteProductKeeps ==
    ASSUME CatalogInv, NEW sku \in Labels, DeleteProduct(sku)
    PROVE  CatalogInv' /\ DefaultKept
<1>1. book = "product" /\ UNCHANGED <<book, update, said, overlapped>>
  BY DEF DeleteProduct, Rewritten
<1>2. row' = [i \in Ids |-> IF HasSKU(i, sku)
                           THEN [row[i] EXCEPT !.deleted = TRUE, !.active = FALSE]
                           ELSE row[i]]
  BY DEF DeleteProduct, Rewritten
<1>3. ASSUME NEW j \in Ids
      PROVE  /\ row'[j] \in RowOf(book) \cup {Null}
             /\ row[j] # Null <=> row'[j] # Null
             /\ LiveRow(j)' => LiveRow(j) /\ row'[j].data = row[j].data
  <2>1. CASE ~HasSKU(j, sku)
    <3>1. row'[j] = row[j]
      BY <1>2, <2>1
    <3> QED
      BY <3>1 DEF LiveRow, CatalogInv, CatalogTyped
  <2>2. CASE HasSKU(j, sku)
    <3> DEFINE x == [row[j] EXCEPT !.deleted = TRUE, !.active = FALSE]
    <3>1. row[j] # Null /\ row[j] \in Product
      BY <1>1, <2>2 DEF HasSKU, LiveRow, CatalogInv, CatalogTyped, RowOf
    <3>2. x \in RowOf(book) /\ x.deleted = TRUE
      BY <1>1, <3>1 DEF RowOf, Product
    <3>3. row'[j] = x
      BY <1>2, <2>2
    <3> HIDE DEF x
    <3>4. x # Null
      BY <3>2, RowShape DEF CatalogInv, CatalogTyped
    <3> QED
      BY <3>1, <3>2, <3>3, <3>4 DEF LiveRow
  <2> QED
    BY <2>1, <2>2
<1>4. row' \in [Ids -> RowOf(book) \cup {Null}]
  <2>1. row' = [j \in Ids |-> row'[j]]
    BY <1>2
  <2> QED
    BY <1>3, <2>1
<1>5. DefaultsApart' /\ DefaultKept
  BY <1>1, NoDefault DEF DefaultsApart
<1> QED
  BY <1>1, <1>3, <1>4, <1>5, RewriteKeeps

-----------------------------------------------------------------------------
(* Update *)

LEMMA ReadKeeps ==
    ASSUME CatalogInv, NEW r \in Requests, NEW i \in Ids, NEW p \in Patch, UpdateReads(r, i, p)
    PROVE  CatalogInv' /\ DefaultKept
<1> DEFINE d == Patched(row[i].data, p)
           u == [id |-> i, data |-> d]
<1>1. /\ book # "product" /\ update[r] = Null /\ LiveRow(i)
      /\ UNCHANGED <<book, row>> /\ update' = [update EXCEPT ![r] = u]
  BY DEF UpdateReads
<1>2. row[i] \in RowOf(book) /\ row[i].data \in Data
  BY <1>1, RowShape DEF LiveRow, CatalogInv, CatalogTyped
<1>3. d \in Data
  BY <1>2 DEF Patched, Patch, Data
<1>4. u \in Update /\ u # Null /\ u.id = i /\ u.data = d
  BY <1>3, CatalogAssumption DEF Update
<1> HIDE DEF u
<1>5. /\ update' \in [Requests -> Update \cup {Null}] /\ update'[r] = u
      /\ \A q \in Requests \ {r} : update'[q] = update[q]
  BY <1>1, <1>4 DEF CatalogInv, CatalogTyped
<1>6. said[i] \in Data
  BY <1>1 DEF LiveRow, CatalogInv, CatalogTyped, RowSaid
<1>7. said' = [said EXCEPT ![i] = Patched(said[i], p)]
  BY DEF UpdateReads, Patched
<1>8. Patched(said[i], p) \in Data
  BY <1>6 DEF Patched, Patch, Data
<1>9. /\ said' \in [Ids -> Data \cup {Null}] /\ said'[i] = Patched(said[i], p)
      /\ \A j \in Ids \ {i} : said'[j] = said[j]
  BY <1>7, <1>8 DEF CatalogInv, CatalogTyped
<1>10. CatalogTyped'
  BY <1>1, <1>5, <1>9 DEF CatalogInv, CatalogTyped
<1>11. DefaultsApart' /\ LabelsApart' /\ Defaults' = Defaults
  BY <1>1 DEF CatalogInv, DefaultsApart, LabelsApart, Defaults, LiveRow
<1>12. \A q \in Requests : \A j \in Ids : q # r => (Writes(q, j)' <=> Writes(q, j))
  BY <1>5 DEF Writes
<1>13. ~\E j \in Ids : Writes(r, j)
  BY <1>1 DEF Writes
<1>14. \A j \in Ids : Writes(r, j)' <=> j = i
  BY <1>4, <1>5 DEF Writes
<1>15. ASSUME NEW j \in Ids \ {i} PROVE RowSaid(j)'
  <2>1. RowSaid(j) /\ (LiveRow(j)' <=> LiveRow(j))
    BY <1>1 DEF CatalogInv, LiveRow
  <2>2. \A q \in Requests : Writes(q, j)' <=> Writes(q, j)
    BY <1>12, <1>13, <1>14
  <2>3. Updating(j)' <=> Updating(j)
    BY <2>2 DEF Updating, Writes
  <2>4. \A q \in Requests : Writes(q, j) => q # r
    BY <1>13
  <2>5. j \notin overlapped' => j \notin overlapped
    BY DEF UpdateReads
  <2> QED
    BY <1>1, <1>5, <1>9, <2>1, <2>2, <2>3, <2>4, <2>5 DEF RowSaid
<1>16. RowSaid(i)'
  <2>1. row'[i] # Null /\ said'[i] # Null /\ book' # "product"
    BY <1>1, <1>8, <1>9, CatalogAssumption DEF LiveRow
  <2>2. CASE i \in overlapped'
    BY <2>1, <2>2 DEF RowSaid
  <2>3. CASE i \notin overlapped'
    <3>1. ~Updating(i) /\ i \notin overlapped
      BY <2>3 DEF UpdateReads
    <3>2. row[i].data = said[i]
      BY <1>1, <3>1 DEF CatalogInv, RowSaid
    <3>3. \A q \in Requests : Writes(q, i)' => q = r
      BY <1>12, <3>1 DEF Updating, Writes
    <3>4. update'[r].data = said'[i]
      BY <1>4, <1>5, <1>9, <3>2
    <3>5. Updating(i)'
      BY <1>14 DEF Updating, Writes
    <3> QED
      BY <2>1, <3>3, <3>4, <3>5 DEF RowSaid
  <2> QED
    BY <2>2, <2>3
<1>17. CatalogInv'
  BY <1>10, <1>11, <1>15, <1>16 DEF CatalogInv
<1>18. DefaultKept
  BY <1>11 DEF DefaultKept
<1> QED
  BY <1>17, <1>18

(* An Update ends, of row i. *)
LEMMA EndKeeps ==
    ASSUME CatalogInv, NEW r \in Requests, NEW i \in Ids, Writes(r, i),
           update' = [update EXCEPT ![r] = Null], UNCHANGED <<book, overlapped>>,
           row'[i] # Null, said'[i] # Null,
           LiveRow(i)' /\ i \notin overlapped => row'[i].data = said'[i],
           \A j \in Ids \ {i} : row'[j] = row[j] /\ said'[j] = said[j]
    PROVE  \A j \in Ids : RowSaid(j)'
<1>1. update'[r] = Null /\ \A q \in Requests \ {r} : update'[q] = update[q]
  BY DEF CatalogInv, CatalogTyped
<1>2. \A j \in Ids : \A q \in Requests : Writes(q, j)' <=> Writes(q, j) /\ q # r
  BY <1>1 DEF Writes
<1>3. ASSUME NEW j \in Ids \ {i} PROVE RowSaid(j)'
  <2>1. RowSaid(j) /\ (LiveRow(j)' <=> LiveRow(j))
    BY DEF CatalogInv, LiveRow
  <2>2. \A q \in Requests : Writes(q, j) => q # r
    BY DEF Writes
  <2>3. \A q \in Requests : Writes(q, j)' <=> Writes(q, j)
    BY <1>2, <2>2
  <2>4. Updating(j)' <=> Updating(j)
    BY <2>3 DEF Updating, Writes
  <2> QED
    BY <1>1, <2>1, <2>2, <2>3, <2>4 DEF RowSaid
<1>4. RowSaid(i)'
  <2>1. RowSaid(i)
    BY DEF CatalogInv
  <2>2. i \notin overlapped => \A q \in Requests : ~Writes(q, i)'
    BY <1>2, <2>1 DEF RowSaid
  <2>3. \A q \in Requests : Writes(q, i)' => Writes(q, i)
    BY <1>2
  <2> QED
    BY <2>1, <2>2, <2>3 DEF RowSaid
<1> QED
  BY <1>3, <1>4

LEMMA WriteKeeps ==
    ASSUME CatalogInv, NEW r \in Requests, UpdateWrites(r)
    PROVE  CatalogInv' /\ DefaultKept
<1> DEFINE i == update[r].id
           x == [row[i] EXCEPT !.data = update[r].data]
<1>1. /\ update[r] # Null /\ (LiveRow(i) => LabelFree(i, update[r].data.label))
      /\ row' = [row EXCEPT ![i] = x]
      /\ update' = [update EXCEPT ![r] = Null]
      /\ UNCHANGED <<book, said, overlapped>>
  BY DEF UpdateWrites
<1>2. i \in Ids /\ update[r].data \in Data /\ Writes(r, i)
  BY <1>1 DEF CatalogInv, CatalogTyped, Update, Writes
<1>3. row[i] \in RowOf(book) /\ row[i] # Null /\ book # "product"
  BY <1>2 DEF CatalogInv, CatalogTyped, RowSaid
<1>4. x \in RowOf(book) /\ x.data = update[r].data /\ x.deleted = row[i].deleted
      /\ x.default = row[i].default
  <2>1. CASE book = "pickup_location"
    BY <1>2, <1>3, <2>1 DEF RowOf, PickupLocation
  <2>2. CASE book = "buyer_address"
    BY <1>2, <1>3, <2>2 DEF RowOf, BuyerAddress
  <2> QED
    BY <1>3, <2>1, <2>2 DEF CatalogInv, CatalogTyped
<1>5. PICK k \in Ids : k = i
  BY <1>2
<1>6. PICK y \in RowOf(book) : y = x
  BY <1>4
<1>7. /\ row[k] # Null /\ y.data = update[r].data /\ y.deleted = row[k].deleted
      /\ y.default = row[k].default /\ row' = [row EXCEPT ![k] = y]
      /\ (LiveRow(k) => LabelFree(k, y.data.label)) /\ Writes(r, k)
  BY <1>1, <1>2, <1>3, <1>4, <1>5, <1>6
<1> HIDE DEF i, x
<1>8. LiveRow(k) \/ y.deleted
  BY <1>7 DEF LiveRow
<1>9. (~y.deleted /\ y.default) => k \in Defaults
  BY <1>3, <1>7 DEF Defaults, LiveRow
<1>10. row' \in [Ids -> RowOf(book) \cup {Null}] /\ DefaultsApart' /\ LabelsApart'
  BY <1>1, <1>7, <1>8, <1>9, OneRow
<1>11. row'[k] = y /\ \A j \in Ids \ {k} : row'[j] = row[j]
  BY <1>7 DEF CatalogInv, CatalogTyped
<1>12. y # Null
  BY RowShape DEF CatalogInv, CatalogTyped
<1>13. \A j \in Ids : RowSaid(j)'
  <2>1. RowSaid(k)
    BY DEF CatalogInv
  <2>2. k \notin overlapped => y.data = said[k]
    BY <1>7, <2>1 DEF RowSaid
  <2> QED
    BY <1>1, <1>7, <1>11, <1>12, <2>1, <2>2, EndKeeps DEF RowSaid
<1>14. CatalogTyped'
  BY <1>1, <1>10 DEF CatalogInv, CatalogTyped
<1>15. CatalogInv'
  BY <1>10, <1>13, <1>14 DEF CatalogInv
<1>16. \A j \in Ids : LiveRow(j)' <=> LiveRow(j)
  BY <1>7, <1>11, <1>12 DEF LiveRow
<1>17. Defaults \subseteq Defaults'
  BY <1>1, <1>7, <1>11, <1>16 DEF Defaults
<1> QED
  BY <1>15, <1>17 DEF DefaultKept

LEMMA FailKeeps ==
    ASSUME CatalogInv, NEW r \in Requests, UpdateFails(r)
    PROVE  CatalogInv' /\ DefaultKept
<1>1. update[r] # Null /\ update[r].id \in Ids
  BY DEF UpdateFails, CatalogInv, CatalogTyped, Update
<1>2. PICK i \in Ids : i = update[r].id
  BY <1>1
<1>3. /\ Writes(r, i) /\ said' = [said EXCEPT ![i] = row[i].data]
      /\ update' = [update EXCEPT ![r] = Null]
      /\ UNCHANGED <<book, row, overlapped>>
  BY <1>1, <1>2 DEF UpdateFails, Writes
<1>4. row[i] # Null /\ row[i].data \in Data
  BY <1>3, RowShape DEF CatalogInv, CatalogTyped, RowSaid
<1>5. /\ said' \in [Ids -> Data \cup {Null}] /\ said'[i] = row[i].data
      /\ \A j \in Ids \ {i} : said'[j] = said[j]
  BY <1>3, <1>4 DEF CatalogInv, CatalogTyped
<1>6. row[i].data # Null
  BY <1>4, CatalogAssumption
<1>7. \A j \in Ids : RowSaid(j)'
  BY <1>3, <1>4, <1>5, <1>6, EndKeeps
<1>8. CatalogTyped'
  BY <1>3, <1>5 DEF CatalogInv, CatalogTyped
<1>9. DefaultsApart' /\ LabelsApart' /\ Defaults' = Defaults
  BY <1>3 DEF CatalogInv, DefaultsApart, LabelsApart, Defaults, LiveRow
<1> QED
  BY <1>7, <1>8, <1>9 DEF CatalogInv, DefaultKept

-----------------------------------------------------------------------------
LEMMA CatalogInductive ==
    ASSUME CatalogInv, CatalogNext
    PROVE  CatalogInv' /\ DefaultKept
<1>1. ASSUME NEW i \in Ids, PickupStep(i) \/ BuyerAddressStep(i)
      PROVE  CatalogInv' /\ DefaultKept
  <2>1. ASSUME SetDefaultPickup(i) \/ SetDefaultBuyer(i) PROVE CatalogInv' /\ DefaultKept
    BY <2>1, SetDefaultKeeps DEF SetDefaultPickup, SetDefaultBuyer
  <2> QED
    BY <1>1, <2>1, CreatePickupKeeps, CreateBuyerKeeps, DeactivateKeeps, SoftDeleteKeeps
    DEF PickupStep, BuyerAddressStep
<1>2. ASSUME NEW r \in Requests, UpdateStep(r) PROVE CatalogInv' /\ DefaultKept
  BY <1>2, ReadKeeps, WriteKeeps, FailKeeps DEF UpdateStep
<1> QED
  BY <1>1, <1>2, UpsertKeeps, DeleteProductKeeps DEF CatalogNext

LEMMA CatalogStutters ==
    ASSUME CatalogInv, UNCHANGED catalogVars
    PROVE  CatalogInv'
<1>1. UNCHANGED <<book, row, update, said, overlapped>>
  BY DEF catalogVars
<1>2. \A i \in Ids : LiveRow(i)' <=> LiveRow(i)
  BY <1>1 DEF LiveRow
<1>3. DefaultsApart'
  BY <1>1, <1>2 DEF CatalogInv, DefaultsApart, Defaults
<1>4. row' \in [Ids -> RowOf(book) \cup {Null}]
  BY <1>1 DEF CatalogInv, CatalogTyped
<1> QED
  BY <1>1, <1>2, <1>3, <1>4, RewriteKeeps

LEMMA CatalogInitially == CatalogInit => CatalogInv
<1> SUFFICES ASSUME CatalogInit PROVE CatalogInv
  OBVIOUS
<1>1. CatalogTyped
  BY DEF CatalogInit, CatalogTyped
<1>2. \A i \in Ids : row[i] = Null
  BY DEF CatalogInit
<1>3. \A r \in Requests : update[r] = Null
  BY DEF CatalogInit
<1> QED
  BY <1>1, <1>2, <1>3
  DEF CatalogInv, DefaultsApart, Defaults, LabelsApart, LiveRow, RowSaid, Writes

(* pickup_repo, buyer_address_repo, product_repo: through every Create,
   Upsert, SetDefault, Update and deletion a book has one default at most and
   no label or SKU twice; and a row no Update is at work on has what was last
   asked for it, unless two Updates of it overlapped.                        *)
THEOREM CatalogHolds == CatalogSpec => [](OneDefault /\ PatchesSurvive)
<1>1. CatalogInv => OneDefault
  <2> SUFFICES ASSUME CatalogInv PROVE OneDefault
    OBVIOUS
  <2>1. Cardinality(Defaults) <= 1
    <3>1. CASE Defaults = {}
      BY <3>1, FS_EmptySet
    <3>2. CASE Defaults # {}
      <4>1. PICK i : Defaults = {i}
        BY <3>2 DEF CatalogInv, DefaultsApart
      <4>2. Cardinality({i}) = 1
        BY FS_Singleton
      <4> QED
        BY <4>1, <4>2
    <3> QED
      BY <3>1, <3>2
  <2> QED
    BY <2>1 DEF OneDefault, CatalogInv, LabelsApart
<1>2. CatalogInv => PatchesSurvive
  BY DEF CatalogInv, PatchesSurvive, RowSaid
<1>3. CatalogInv /\ [CatalogNext]_catalogVars => CatalogInv'
  BY CatalogInductive, CatalogStutters
<1> QED
  BY <1>1, <1>2, <1>3, CatalogInitially, PTL DEF CatalogSpec

(* Who has a default address keeps one, until that row is deleted or a
   SetDefault names a row that is not there.                                *)
THEOREM CatalogDefaultNotLost == CatalogSpec => DefaultNotLost
<1>1. CatalogInv /\ [CatalogNext]_catalogVars => CatalogInv'
  BY CatalogInductive, CatalogStutters
<1>2. CatalogInv /\ [CatalogNext]_catalogVars =>
         [Defaults # {} /\ Defaults' = {} =>
             misnamed' \/ \E i \in Defaults : row'[i].deleted]_catalogVars
  BY CatalogInductive DEF DefaultKept
<1> QED
  BY <1>1, <1>2, CatalogInitially, PTL DEF CatalogSpec, DefaultNotLost
=============================================================================
