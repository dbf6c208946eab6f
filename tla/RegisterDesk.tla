---------------------------- MODULE RegisterDesk ----------------------------
(***************************************************************************)
(* The master data: customers with their contacts, opportunities, tags and *)
(* levels, and the materials, suppliers and warehouses of the inventory.   *)
(***************************************************************************)
EXTENDS Operations

(* These tables all have the same repository: one row is read by id and    *)
(* enterprise, saved whole and deleted by a column update.                 *)
Register(kind) ==
    [kind |-> kind, FindByID |-> "own", Create |-> "insert", Update |-> "save",
     Delete |-> "remove"]

-----------------------------------------------------------------------------
(* Customers and what hangs from them.                                     *)

CustomerRepo ==
    Register("customer") @@ [DeleteByID |-> "remove", UpdateStatus |-> "columns",
                             List |-> PagedList(20, 100)]
ContactRepo       == Register("contact") @@ [DeleteByID |-> "remove"]
OpportunityRepo   == Register("opportunity")
CustomerTagRepo   == Register("tag") @@ [DeleteByCustomerAndTag |-> "remove"]
CustomerLevelRepo == Register("level")

(* Create refuses a name the enterprise has already: the model's rows have *)
(* different names.                                                        *)
CustomerService ==
    [Create |-> Insert(CustomerRepo, "active"),
     Update |-> Edit(CustomerRepo, "Update", AnyStatus),
     Delete |-> Remove(CustomerRepo, "Delete", AnyStatus)]
    @@ Reads(CustomerRepo, {"Get"}) @@ Lists(CustomerRepo, {"List"})

ContactService ==
    [CreateContact |-> InsertUnder(ContactRepo, "stored", "customer"),
     UpdateContact |-> Edit(ContactRepo, "Update", AnyStatus),
     DeleteContact |-> Remove(ContactRepo, "Delete", AnyStatus)]
    @@ Reads(ContactRepo, {"GetContact", "ListContacts"})

OpportunityStatus == {"following", "quoting", "won", "lost"}
OpportunityService ==
    [CreateOpportunity |-> InsertUnder(OpportunityRepo, "following", "customer"),
     UpdateOpportunity |-> Rewrite(OpportunityRepo, "Update", OpportunityStatus),
     DeleteOpportunity |-> Remove(OpportunityRepo, "Delete", AnyStatus)]
    @@ Reads(OpportunityRepo, {"GetOpportunity", "ListOpportunities"})

(* A tag is removed by one statement, without reading it first.            *)
CustomerTagService ==
    [AddTag    |-> InsertUnder(CustomerTagRepo, "stored", "customer"),
     RemoveTag |-> Unread(Remove(CustomerTagRepo, "DeleteByCustomerAndTag", AnyStatus))]
    @@ Reads(CustomerTagRepo, {"ListTags", "ListAllTags"})

CustomerLevelService ==
    [CreateLevel |-> Insert(CustomerLevelRepo, "stored"),
     UpdateLevel |-> Edit(CustomerLevelRepo, "Update", AnyStatus),
     DeleteLevel |-> Remove(CustomerLevelRepo, "Delete", AnyStatus)]
    @@ Reads(CustomerLevelRepo, {"ListLevels"})

CustomerHandler      == Guarded(CustomerService)
ContactHandler       == Guarded(ContactService)
OpportunityHandler   == Guarded(OpportunityService)
CustomerTagHandler   == Guarded(CustomerTagService)
CustomerLevelHandler == Guarded(CustomerLevelService)

ContactDesk == Reached(CustomerHandler @@ ContactHandler @@ CustomerTagHandler, CRMRoutes)
OpportunityDesk == Reached(CustomerHandler @@ OpportunityHandler, CRMRoutes)
LevelDesk == Reached(CustomerLevelHandler, CRMRoutes)

-----------------------------------------------------------------------------
(* Materials, suppliers and warehouses.                                    *)

MaterialRepo ==
    Register("material") @@ [DeleteByID |-> "remove", List |-> PagedList(20, 100)]
SupplierRepo ==
    Register("supplier") @@ [DeleteByID |-> "remove", List |-> PagedList(20, 100)]
WarehouseRepo == Register("warehouse") @@ [List |-> PagedList(20, 100)]

MaterialService ==
    [Create |-> Insert(MaterialRepo, "active"),
     Update |-> Rewrite(MaterialRepo, "Update", {"inactive"}),
     Delete |-> Remove(MaterialRepo, "Delete", AnyStatus)]
    @@ Reads(MaterialRepo, {"Get"}) @@ Lists(MaterialRepo, {"List"})
SupplierService ==
    [Create |-> Insert(SupplierRepo, "active"),
     Update |-> Rewrite(SupplierRepo, "Update", {"inactive"}),
     Delete |-> Remove(SupplierRepo, "Delete", AnyStatus)]
    @@ Reads(SupplierRepo, {"Get"}) @@ Lists(SupplierRepo, {"List"})
WarehouseService ==
    [Create |-> Insert(WarehouseRepo, "active"),
     Update |-> Rewrite(WarehouseRepo, "Update", {"inactive"}),
     Delete |-> Remove(WarehouseRepo, "Delete", AnyStatus)]
    @@ Reads(WarehouseRepo, {"Get"}) @@ Lists(WarehouseRepo, {"List"})

MaterialHandler  == Guarded(MaterialService)
SupplierHandler  == Guarded(SupplierService)
WarehouseHandler == Guarded(WarehouseService)

MaterialDesk  == Reached(MaterialHandler, IMSRoutes)
SupplierDesk  == Reached(SupplierHandler, IMSRoutes)
WarehouseDesk == Reached(WarehouseHandler, IMSRoutes)
=============================================================================
