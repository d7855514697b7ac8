------------------------------ MODULE MCPlatform ------------------------------
(***************************************************************************)
(* Instances of Platform for TLC: a restaurant, a shop and a spa.          *)
(***************************************************************************)
EXTENDS Platform, TLC

CONSTANTS i1, i2

Row(type, price, windows, class) ==
  [EntityRow(type, price) EXCEPT !.status = "ACTIVE", !.channels = [DELIVERY |-> 500], !.windows = windows,
                                 !.taxClass = class, !.reorder = 1]

\* Friday to Monday, until the minute that ends with the second tick; and on
\* Monday, from the first minute on.
HappyHour == <<[days |-> <<"FRI", "MON">>, from |-> 1070, to |-> 1072, pct |-> 20],
               [days |-> <<"MON">>, from |-> 0, to |-> 14, pct |-> 50]>>

\* Two minutes of a quarter of an hour, and a midnight.
MCInstants ==
  [t \in 0 .. 8 |-> [day    |-> IF t < 7 THEN "SUN" ELSE "MON",
                    minute |-> CASE t < 2 -> 1072 [] t < 5 -> 1073 [] t < 7 -> 1439 [] OTHER -> 0]]

MCClasses == [FOOD |-> [rate |-> 16, inclusive |-> FALSE], APPAREL |-> [rate |-> 8, inclusive |-> TRUE]]

Tenant(vertical, allowed) == [vertical |-> vertical, allowed |-> allowed]

Mix(kinds, left, from, ticks) == [kinds |-> kinds, left |-> left, from |-> from, ticks |-> ticks]

Mixes == {Mix({"cart", "sale", "stock"}, 4, 0, 0), Mix({"stock", "edit"}, 3, 0, 0)}

\* A shop where nothing is sold yet, and nothing is done.
EmptyShop == [tenant |-> Tenant("SPA", {}), mixes |-> {Mix({}, 0, 0, 0)}, rows |-> <<>>]

\* The first tenant's lists and carts are read while time passes.
MCSeeds ==
  {EmptyShop,
   [tenant |-> Tenant("RESTAURANT", {}), mixes |-> Mixes \cup {Mix({"list", "edit"}, 3, 0, 4), Mix({"cart", "edit"}, 3, 1, 3),
                                                     Mix({"cart"}, 2, 5, 8)},
    rows |-> (i1 :> Row("MENU_ITEM", 400, HappyHour, "FOOD") @@ i2 :> Row("INGREDIENT", 100, <<>>, "FOOD"))],
   [tenant |-> Tenant("RESTAURANT", {}), mixes |-> Mixes,
    rows |-> (i1 :> [Row("COMBO", 400, HappyHour, "STANDARD") EXCEPT !.status = "DRAFT"])],
   [tenant |-> Tenant("FASHION", {"PRODUCT"}), mixes |-> Mixes,
    rows |-> (i1 :> Row("BUNDLE", 400, <<>>, "APPAREL") @@
              i2 :> [Row("PRODUCT", 400, <<>>, "APPAREL") EXCEPT !.off = {"CAN_TRACK_INVENTORY"}, !.on = {"CAN_GENERATE_KITCHEN_TICKET"}])],
   [tenant |-> Tenant("SPA", {}), mixes |-> Mixes,
    rows |-> (i1 :> [Row("SERVICE", 400, HappyHour, "APPAREL") EXCEPT !.recipe = TRUE] @@
              i2 :> Row("PRODUCT", 100, <<>>, "FOOD"))]}

Line(i, quantity, channel) == [item |-> i, quantity |-> quantity, channel |-> channel]

MCCarts == {<<Line(i1, 1, "DELIVERY"), Line(i2, 1, "POS")>>, <<Line(i1, 2, "POS")>>}

SlotSymmetry == Permutations(Slots)
===============================================================================
