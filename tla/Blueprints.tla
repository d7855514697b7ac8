------------------------------ MODULE Blueprints ------------------------------
(***************************************************************************)
(* The system blueprints: what each vertical may create, what its entities *)
(* can do, what a creation form asks for and what the API demands.  Tables *)
(* and operators only; Platform is the system that is configured by them.  *)
(***************************************************************************)
EXTENDS Naturals, Sequences

\* A capability that is listed as false, or not at all, is not in the set.
RestaurantCapabilities ==
  [MENU_ITEM  |-> {"CAN_CONSUME_INGREDIENTS", "CAN_GENERATE_KITCHEN_TICKET", "CAN_BE_DELIVERED",
                   "CAN_HAVE_MODIFIERS", "CAN_HAVE_COMBOS", "CAN_EARN_LOYALTY", "CAN_USE_DISCOUNT"},
   INGREDIENT |-> {"CAN_TRACK_INVENTORY", "CAN_EXPIRE"},
   MODIFIER   |-> {},
   COMBO      |-> {"CAN_HAVE_COMBOS", "CAN_GENERATE_KITCHEN_TICKET", "CAN_USE_DISCOUNT"}]

FashionCapabilities ==
  [PRODUCT |-> {"CAN_TRACK_INVENTORY", "CAN_HAVE_VARIANTS", "CAN_BE_DELIVERED", "CAN_BE_RETURNED",
                "CAN_EARN_LOYALTY", "CAN_USE_DISCOUNT"},
   BUNDLE  |-> {"CAN_HAVE_COMBOS", "CAN_BE_DELIVERED", "CAN_BE_RETURNED",
                "CAN_EARN_LOYALTY", "CAN_USE_DISCOUNT"}]

SpaCapabilities ==
  [SERVICE |-> {"CAN_CONSUME_INGREDIENTS", "CAN_REQUIRE_BOOKING", "CAN_REQUIRE_STAFF",
                "CAN_BE_RESERVED", "CAN_EARN_LOYALTY", "CAN_USE_DISCOUNT"},
   PRODUCT |-> {"CAN_TRACK_INVENTORY", "CAN_BE_RETURNED", "CAN_EARN_LOYALTY", "CAN_USE_DISCOUNT"}]

-----------------------------------------------------------------------------
(* Creation: the steps of the form, and the fields the API looks for. *)

WizardStep(fields) == [fields |-> fields, needs |-> {}]

RestaurantSteps ==
  [MENU_ITEM  |-> <<WizardStep({"name", "category", "description", "allergens", "image"}),
                    WizardStep({"base_price", "dine_in_price", "takeaway_price", "delivery_price", "tax_class"}),
                    WizardStep({"recipe_lines", "is_recipe_based", "waste_factor_pct"}),
                    WizardStep({"branch_scope", "availability_windows", "prep_station", "status"})>>,
   INGREDIENT |-> <<WizardStep({"name", "unit", "reorder_point", "reorder_qty", "cost_price", "supplier_id"})>>,
   MODIFIER   |-> <<WizardStep({"name", "options", "is_required", "max_selections"})>>,
   COMBO      |-> <<WizardStep({"name", "description", "image"}), WizardStep({"combo_lines"}),
                    WizardStep({"base_price", "tax_class"})>>]

FashionSteps ==
  [PRODUCT |-> <<WizardStep({"name", "brand", "collection", "gender", "category", "material", "description", "images"}),
                 [fields |-> {"variant_axes", "variant_matrix"}, needs |-> {"CAN_HAVE_VARIANTS"}],
                 WizardStep({"cost_price", "base_price", "tax_class", "markdown_rules"}),
                 WizardStep({"supplier_id", "reorder_point", "reorder_qty", "lead_time_days"}),
                 WizardStep({"branch_stock_entries"}),
                 WizardStep({"sku", "barcode", "variant_images"})>>,
   BUNDLE  |-> <<WizardStep({"name", "description", "images"}), WizardStep({"bundle_lines"}),
                 WizardStep({"base_price", "tax_class"})>>]

SpaSteps ==
  [SERVICE |-> <<WizardStep({"name", "category", "description", "image"}),
                 WizardStep({"duration_minutes", "requires_staff", "staff_skill_level", "buffer_minutes"}),
                 WizardStep({"base_price", "tax_class", "staff_tier_pricing"}),
                 WizardStep({"recipe_lines"})>>,
   PRODUCT |-> <<WizardStep({"name", "category", "base_price", "cost_price", "tax_class", "reorder_point"})>>]

RestaurantRequired ==
  [MENU_ITEM  |-> {"name", "base_price", "tax_class", "category"},
   INGREDIENT |-> {"name", "unit", "cost_price"},
   MODIFIER   |-> {"name"},
   COMBO      |-> {"name", "base_price", "tax_class"}]

FashionRequired ==
  [PRODUCT |-> {"name", "base_price", "tax_class", "category", "cost_price"},
   BUNDLE  |-> {"name", "base_price", "tax_class"}]

SpaRequired ==
  [SERVICE |-> {"name", "base_price", "duration_minutes", "tax_class"},
   PRODUCT |-> {"name", "base_price", "tax_class"}]

-----------------------------------------------------------------------------
(* The blueprints; of the engines, those that are not on everywhere. *)

Blueprint(engines, capabilities, steps, required) ==
  [supported |-> DOMAIN capabilities, engines |-> engines, capabilities |-> capabilities,
   steps |-> steps, required |-> required]

\* Mutant: the kitchen is turned off where tickets are printed.
RestaurantWithoutKitchen == Blueprint({}, RestaurantCapabilities, RestaurantSteps, RestaurantRequired)

Restaurant == Blueprint({"kitchen"}, RestaurantCapabilities, RestaurantSteps, RestaurantRequired)
Fashion    == Blueprint({}, FashionCapabilities, FashionSteps, FashionRequired)
Spa        == Blueprint({"booking"}, SpaCapabilities, SpaSteps, SpaRequired)

SystemBlueprints == [RESTAURANT |-> Restaurant, FASHION |-> Fashion, SPA |-> Spa]

\* What a tenant gets.  allowed stands for overrides.allowedEntityTypes, {} for
\* none; the workflow policy changes the mode of every form, which is not here.
ApplyTenantOverrides(base, allowed) ==
  [base EXCEPT !.supported = IF allowed = {} THEN @ ELSE allowed]

ForTenant(tenant) == ApplyTenantOverrides(SystemBlueprints[tenant.vertical], tenant.allowed)

-----------------------------------------------------------------------------
(* Questions to a blueprint. *)

\* A type that was allowed from outside of the blueprint has no table.
Entry(table, type, default) == IF type \in DOMAIN table THEN table[type] ELSE default

\* resolveCapabilityMaps: the flags of an entity win over its type's.
CapabilitiesOf(blueprint, type, on, off) ==
  (Entry(blueprint.capabilities, type, {}) \ off) \cup on

\* The fields a request may have; any other is refused before the service.
\* They are in camel case, and the fields that a blueprint requires are not.
DtoFields == {"entityType", "name", "taxClass", "basePrice", "currency", "branchScope", "tags",
              "extension", "recipeLines", "variants"}

\* The fields of a request that create would find missing.
Missing(blueprint, type, given) == Entry(blueprint.required, type, {}) \ given

\* The fields that the form of a type asks for.
Asked(blueprint, type) ==
  LET steps == Entry(blueprint.steps, type, <<>>)
      able  == Entry(blueprint.capabilities, type, {})
  IN  UNION {steps[i].fields : i \in {j \in DOMAIN steps : steps[j].needs \subseteq able}}
===============================================================================
