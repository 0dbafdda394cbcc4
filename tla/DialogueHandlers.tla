------------------------- MODULE DialogueHandlers -------------------------
(***************************************************************************)
(* The handlers of the bot's dialogues, one record each: what triggers it, *)
(* the state its filter wants, the answers it takes from the dialogue's    *)
(* data and those it stores, and the state it sets.  Dialogues runs them.  *)
(***************************************************************************)
\* The filter of a handler that answers in every state; and, instead of a
\* state to set: none is set, state.clear(), set_state(None).
Anytime == "any"
Same == "same"
Cleared == "cleared"
Unset == "unset"

\* of: the dialogue; on: what triggers the handler; at: the state its filter
\* wants; needs: answers read before it stores anything, uses: answers read
\* afterwards; keeps: answers stored; next: the state set; opens: a new
\* dialogue; wipes: it begins with state.clear(); saves: it writes to the
\* database or pays; late: it stores its answer after setting the state;
\* clears: it ends the dialogue when an answer is missing, quits: when it
\* refuses, where others raise or only reply.
Handler(of, on, at, keys, next) ==
  [of |-> of, on |-> on, at |-> at, needs |-> {}, uses |-> {},
   keeps |-> keys, next |-> next, opens |-> FALSE, wipes |-> FALSE,
   saves |-> FALSE, late |-> FALSE, clears |-> FALSE, quits |-> FALSE]

\* A message; one that has to be a number, a code or a link, which a command
\* never is; a photo; a button whose data begins with menu: or admin: (or the
\* command /start), for which the middleware ends the dialogue; any other
\* button.
Text(of, at, keys, next) == Handler(of, "text", at, keys, next)
Strict(of, at, keys, next) == Handler(of, "strict", at, keys, next)
Photo(of, at, keys, next) == Handler(of, "photo", at, keys, next)
Menu(of, at, keys, next) == Handler(of, "menu", at, keys, next)
Button(of, at, keys, next) == Handler(of, "button", at, keys, next)

Opens(h) == [h EXCEPT !.opens = TRUE]
Wipes(h) == [h EXCEPT !.wipes = TRUE]
Needs(h, keys) == [h EXCEPT !.needs = keys]
Uses(h, keys) == [h EXCEPT !.uses = keys]
Saves(h, keys) == [h EXCEPT !.saves = TRUE, !.uses = keys]
Late(h) == [h EXCEPT !.late = TRUE]
Caught(h) == [h EXCEPT !.clears = TRUE]
Quits(h) == [h EXCEPT !.quits = TRUE]
Goes(next, h) == [h EXCEPT !.next = next]

\* The main sections of the catalogue (handlers/admin/categories.py).
CatAddStart == Opens(Wipes(Menu("category", Anytime, {}, "category type")))
CatTypeSelected ==
  Menu("category", Anytime, {"category_type"}, "category name")
CatNameReceived ==
  Text("category", "category name", {"name"}, "category emoji")
CatEmojiSelected ==
  Quits(Caught(Saves(Menu("category", "category emoji", {"emoji"}, Cleared),
                {"name", "category_type"})))
CatCustomEmojiReceived ==
  Quits(Caught(Saves(Text("category", "category emoji", {"emoji"}, Cleared),
                {"name", "category_type"})))
CatEditStart ==
  Opens(Menu("category edit", Anytime, {"edit_category_id", "edit_field"},
             "category edit"))
CatEditValueReceived ==
  Quits(Caught(Saves(
    Text("category edit", "category edit", {"value"}, Cleared),
    {"edit_category_id", "edit_field"})))
\* Subsections; the picture may be uploaded, linked or left out.
SubcatAddStart ==
  Opens(Menu("subcategory", Anytime, {"parent_category_id"},
             "subcategory name"))
SubcatNameReceived ==
  Text("subcategory", "subcategory name", {"name"}, "subcategory emoji")
SubcatEmojiSelected ==
  Menu("subcategory", "subcategory emoji", {"emoji"},
       "subcategory description")
SubcatCustomEmojiReceived ==
  Text("subcategory", "subcategory emoji", {"emoji"},
       "subcategory description")
SubcatDescriptionReceived ==
  Text("subcategory", "subcategory description", {"description"},
       "subcategory image")
CreateSubCategory(h) == Caught(Saves(h, {"parent_category_id", "name"}))
SubcatImageOption ==
  CreateSubCategory(Menu("subcategory", "subcategory image", {}, Cleared))
SubcatImageUploaded ==
  CreateSubCategory(
    Photo("subcategory", "subcategory image", {"image_file_id"}, Cleared))
SubcatImageUrlReceived ==
  CreateSubCategory(
    Strict("subcategory", "subcategory image", {"image_url"}, Cleared))
SubcatImageSkipped ==
  CreateSubCategory(Strict("subcategory", "subcategory image", {}, Cleared))
SubcatEditStart ==
  Opens(Menu("subcategory edit", Anytime,
             {"edit_sub_category_id", "edit_field"}, "subcategory edit"))
SubcatEditImagePhoto ==
  Quits(Caught(Saves(
    Photo("subcategory edit", "subcategory edit", {"image_file_id"}, Cleared),
    {"edit_sub_category_id"})))
SubcatEditValueReceived ==
  Quits(Caught(Saves(
    Text("subcategory edit", "subcategory edit", {"value"}, Cleared),
    {"edit_sub_category_id", "edit_field"})))
\* Providers (handlers/admin/api_providers.py).  Currency, test and save are
\* buttons, and so are protocol and type.
AprovAddStart ==
  Opens(Wipes(Menu("provider", Anytime, {}, "provider protocol")))
AprovProtocolSelected ==
  Menu("provider", Anytime, {"protocol_type"}, "provider type")
AprovProtocolCustom ==
  Menu("provider", Anytime, {"protocol_type"}, "provider config")
AprovCustomConfigReceived ==
  Strict("provider", "provider config", {"custom_config"}, "provider type")
AprovTypeSelected ==
  Menu("provider", Anytime, {"provider_type"}, "provider name")
AprovNameReceived ==
  Text("provider", "provider name", {"name"}, "provider url")
AprovUrlReceived ==
  Strict("provider", "provider url", {"api_url"}, "provider key")
AprovKeyReceived ==
  Text("provider", "provider key", {"api_key"}, "provider currency")
Summary ==
  {"protocol_type", "provider_type", "name", "api_url", "currency",
   "rate_to_usd"}
AprovCurrencySelected ==
  Uses(Menu("provider", Anytime, {"currency", "rate_to_usd"}, Same), Summary)
AprovCurrencyCustom ==
  Late(Menu("provider", Anytime, {"waiting_custom_currency"},
            "provider currency"))
AprovCustomCurrencyReceived ==
  Uses(Needs(
    Strict("provider", "provider currency", {"currency", "rate_to_usd"}, Same),
    {"waiting_custom_currency"}), Summary)
AprovTestAndSave ==
  Quits(Saves(Menu("provider", Anytime, {}, Cleared),
              Summary \cup {"api_key"}))
AprovSearchStart ==
  Opens(Menu("provider search", Anytime, {"search_provider_id"},
             "provider search"))
AprovSearchQueryReceived ==
  Quits(Caught(Needs(
    Text("provider search", "provider search", {"search_query"}, Unset),
    {"search_provider_id"})))
AprovEditNameStart ==
  Opens(Menu("provider edit", Anytime, {"edit_provider_id", "edit_field"},
             "provider edit"))
AprovEditKeyStart == AprovEditNameStart
AprovEditUrlStart == AprovEditNameStart
AprovEditRateStart == AprovEditNameStart
AprovEditValueReceived ==
  Quits(Caught(Saves(
    Text("provider edit", "provider edit", {"value"}, Cleared),
    {"edit_provider_id", "edit_field"})))
\* Products (handlers/admin/products.py): name, prices by message, provider,
\* service and requirements by button.
ProdAddStart ==
  Opens(Menu("product", Anytime, {"prod_sub_id"}, "product name"))
ProdNameReceived ==
  Text("product", "product name", {"prod_name"}, "product price")
ProdPriceReceived ==
  Strict("product", "product price", {"prod_price"}, "product cost")
ProdCostReceived == Strict("product", "product cost", {"prod_cost"}, Same)
ProdFulfillmentSelected ==
  Menu("product", Anytime, {"prod_fulfillment_type"}, Same)
ProdProviderSelected ==
  Menu("product", Anytime, {"prod_provider_id", "prod_fulfillment_type"},
       "product service")
ProdServiceManual ==
  Menu("product", Anytime, {"prod_provider_id", "prod_fulfillment_type"},
       "product service")
ProdServiceSelected ==
  Menu("product", Anytime, {"prod_provider_id", "prod_fulfillment_type",
                          "prod_provider_svc_id"}, Same)
ProdSvcIdReceived ==
  Text("product", "product service", {"prod_provider_svc_id"}, Same)
SaveProduct(h) == Saves(h, {"prod_sub_id", "prod_name", "prod_price"})
ProdRequirementsSelected ==
  SaveProduct(Menu("product", Anytime, {"requirements"}, Cleared))
ProdRequirementsQuantity ==
  Menu("product", Anytime, {"requirements"}, "product min")
ProdMinQtyReceived ==
  Strict("product", "product min", {"min_quantity"}, "product max")
ProdMaxQtyReceived ==
  SaveProduct(Strict("product", "product max", {"max_quantity"}, Cleared))
ProdEditPriceStart ==
  Opens(Menu("product edit", Anytime, {"edit_prod_id", "edit_field"},
             "product edit"))
ProdEditNameStart == ProdEditPriceStart
ProdEditSvcIdStart == ProdEditPriceStart
ProdEditReceived ==
  Saves(Text("product edit", "product edit", {"value"}, Cleared), {})
InventoryAddStart ==
  Opens(Menu("inventory", Anytime, {"inventory_product_id"}, "inventory value"))
InventoryValueReceived ==
  Saves(Text("inventory", "inventory value", {"value"}, Cleared),
         {"inventory_product_id"})

\* Coupons, promotions and gift codes: the kind of discount and the number
\* of uses are buttons in the middle of the dialogue.
CouponAddStart == Opens(Menu("coupon", Anytime, {}, "coupon code"))
CouponCodeReceived == Strict("coupon", "coupon code", {"coupon_code"}, Same)
CouponDtypeSelected ==
  Menu("coupon", Anytime, {"coupon_dtype"}, "coupon value")
CouponValueReceived ==
  Strict("coupon", "coupon value", {"coupon_value"}, "coupon uses")
CouponMaxUsesReceived ==
  Strict("coupon", "coupon uses", {"coupon_max_uses"}, "coupon min")
CouponMinOrderReceived ==
  Strict("coupon", "coupon min", {"coupon_min_order"}, "coupon expiry")
CouponExpiresReceived ==
  Saves(Strict("coupon", "coupon expiry", {"expires_at"}, Cleared),
         {"coupon_code", "coupon_dtype", "coupon_value", "coupon_max_uses"})
PromoAddStart ==
  Opens(Wipes(Menu("promotion", Anytime, {}, "promotion product")))
PromoProductReceived ==
  Strict("promotion", "promotion product", {"product_id"}, "promotion name")
PromoNameReceived == Text("promotion", "promotion name", {"name"}, Same)
PromoTypeSelected ==
  Menu("promotion", Anytime, {"discount_type"}, "promotion value")
PromoValueReceived ==
  Strict("promotion", "promotion value", {"discount_value"},
       "promotion duration")
PromoDurationReceived ==
  Strict("promotion", "promotion duration", {"duration_hours"},
         "promotion uses")
PromoMaxUsesReceived ==
  Saves(Strict("promotion", "promotion uses", {"max_uses"}, Cleared),
         {"product_id", "name", "discount_type", "discount_value",
          "duration_hours"})
GiftCreateStart == Opens(Wipes(Menu("gift code", Anytime, {}, "gift amount")))
GiftAmountReceived ==
  Strict("gift code", "gift amount", {"amount_usd"}, "gift uses")
GiftMaxUsesSelected == Menu("gift code", Anytime, {"max_uses"}, "gift expiry")
GiftExpiryReceived ==
  Saves(Strict("gift code", "gift expiry", {"expires_at"}, Cleared),
         {"amount_usd", "max_uses"})

\* Number services, countries and packages of stars: messages only.
NsvcAddStart == Opens(Menu("number service", Anytime, {}, "service code"))
NsvcCodeReceived ==
  Text("number service", "service code", {"nsvc_code"}, "service name")
NsvcNameReceived ==
  Text("number service", "service name", {"nsvc_name"}, "service emoji")
NsvcEmojiReceived ==
  Text("number service", "service emoji", {"nsvc_emoji"}, "service fivesim")
NsvcFivesimReceived ==
  Text("number service", "service fivesim", {"fivesim"}, "service herosms")
NsvcHerosmsReceived ==
  Text("number service", "service herosms", {"herosms"}, "service activate")
NsvcSmsActivateReceived ==
  Text("number service", "service activate", {"sms_activate"},
       "service smshub")
NsvcSmshubReceived ==
  Quits(Saves(Text("number service", "service smshub", {"smshub"}, Cleared),
         {"nsvc_code", "nsvc_name", "nsvc_emoji"}))
NsvcEditNameStart ==
  Opens(Menu("number service edit", Anytime, {"edit_nsvc_id"}, "service edit"))
NsvcEditReceived ==
  Saves(Text("number service edit", "service edit", {"value"}, Cleared), {})
CountryAddStart == Opens(Menu("country", Anytime, {}, "country code"))
CountryCodeReceived ==
  Text("country", "country code", {"code"}, "country name")
CountryNameReceived ==
  Text("country", "country name", {"name_ar"}, "country flag")
CountryFlagReceived ==
  Text("country", "country flag", {"flag"}, "country fivesim")
CountryFivesimReceived ==
  Text("country", "country fivesim", {"fivesim"}, "country herosms")
CountryHerosmsReceived ==
  Text("country", "country herosms", {"herosms"}, "country activate")
CountrySmsActivateReceived ==
  Text("country", "country activate", {"sms_activate"}, "country smshub")
CountrySmshubReceived ==
  Quits(Saves(Text("country", "country smshub", {"smshub"}, Cleared),
         {"code", "name_ar"}))
StarAddStart == Opens(Menu("stars", Anytime, {}, "stars amount"))
StarAmountReceived ==
  Strict("stars", "stars amount", {"star_amount"}, "stars usd")
StarUsdReceived ==
  Uses(Strict("stars", "stars usd", {"star_usd"}, "stars label"),
       {"star_amount"})
StarLabelReceived ==
  Saves(Text("stars", "stars label", {"label"}, Cleared),
         {"star_amount", "star_usd"})

\* Settings: a button names the setting, a message gives its value.
SettingStart ==
  Opens(Menu("setting", Anytime, {"setting_key"}, "setting value"))
LoyaltySettingStart == SettingStart
GenericSettingReceived ==
  Caught(Saves(Text("setting", "setting value", {"value"}, Cleared),
                {"setting_key"}))
OneSetting(of) ==
  {Opens(Menu(of, Anytime, {}, of)),
   Saves(Text(of, of, {"value"}, Cleared), {})}
OneNumber(of) ==
  {Opens(Menu(of, Anytime, {}, of)),
   Saves(Strict(of, of, {"value"}, Cleared), {})}
SetMaintenanceMsg == OneSetting("maintenance message")
SetMargin == OneNumber("margin")

\* Users, administrators, channels and messages.
UserSearch ==
  {Opens(Menu("user search", Anytime, {}, "user search")),
   Strict("user search", "user search", {}, Cleared)}
UserAddBalanceStart ==
  Opens(Menu("user balance", Anytime, {"target_user_id", "action"},
             "user balance"))
UserDeductBalanceStart == UserAddBalanceStart
BalanceAmountReceived ==
  Quits(Saves(Strict("user balance", "user balance", {"amount"}, Cleared),
         {"target_user_id", "action"}))
UserSendMsgStart ==
  Opens(Menu("user message", Anytime, {"send_to_user_id"}, "user message"))
UserSendMsgReceived ==
  Quits(Needs(Text("user message", "user message", {}, Cleared),
              {"send_to_user_id"}))
MadminAdd ==
  {Opens(Menu("admin", Anytime, {}, "admin")),
   Quits(Saves(Strict("admin", "admin", {"value"}, Cleared), {}))}
ChannelAdd ==
  {Opens(Menu("channel", Anytime, {}, "channel")),
   Quits(Saves(Text("channel", "channel", {"value"}, Cleared), {}))}
Broadcast == OneSetting("broadcast")
TicketReplyStart ==
  Opens(Menu("ticket reply", Anytime, {"ticket_id"}, "ticket reply"))
TicketReplyReceived ==
  Quits(Saves(Text("ticket reply", "ticket reply", {"reply"}, Cleared),
         {"ticket_id"}))
\* What users say: transfers, tickets, requests, gift codes, reviews.
TransferStart ==
  Opens(Wipes(Menu("transfer", Anytime, {}, "transfer recipient")))
TransferRecipientReceived ==
  Strict("transfer", "transfer recipient", {"recipient_id"}, "transfer amount")
TransferAmountReceived ==
  Quits(Saves(Strict("transfer", "transfer amount", {"amount"}, Cleared),
         {"recipient_id"}))
OneMessage(of) ==
  {Opens(Wipes(Button(of, Anytime, {}, of))),
   Saves(Text(of, of, {"value"}, Cleared), {})}
SupportTicket == OneMessage("ticket")
ProductRequestNew == OneMessage("product request")
GiftRedeem == OneMessage("gift")
AssistantRequest ==
  {Opens(Wipes(Menu("assistant", Anytime, {}, "assistant"))),
   Text("assistant", "assistant", {}, Cleared)}
ReviewStart ==
  Opens(Wipes(Button("review", Anytime, {"review_order_id"}, "review rating")))
ReviewRating ==
  Button("review", Anytime, {"review_order_id", "review_rating"},
         "review comment")
ReviewComment ==
  Quits(Saves(Text("review", "review comment", {"comment"}, Cleared),
         {"review_order_id", "review_rating"}))
ReviewSkipComment ==
  Quits(Caught(Saves(Button("review", Anytime, {}, Cleared),
                     {"review_order_id", "review_rating"})))
\* Top-ups (handlers/deposit_methods.py); TopUps models what follows.
ShowDepositMenu == Opens(Wipes(Menu("deposit", Anytime, {}, Same)))
ShamcashManualStart == Opens(Wipes(Button("shamcash", Anytime, {}, Same)))
ShamcashManualAmountAsk == Button("shamcash", Anytime, {}, "shamcash amount")
ShamcashManualAmountReceived ==
  Strict("shamcash", "shamcash amount", {"amount_usd"}, "shamcash photo")
ShamcashManualPhotoReceived ==
  Photo("shamcash", "shamcash photo", {"photo_file_id"}, "shamcash number")
ShamcashManualTxReceived ==
  Quits(Saves(Text("shamcash", "shamcash number", {"tx_number"}, Cleared),
         {"amount_usd", "photo_file_id"}))
UsdtManualStart == Opens(Wipes(Button("usdt", Anytime, {}, Same)))
UsdtManualNetworkAsk == Button("usdt", Anytime, {}, "usdt network")
UsdtManualNetworkSelected ==
  Button("usdt", Anytime, {"network"}, "usdt amount")
UsdtManualAmountReceived ==
  Quits(Needs(Strict("usdt", "usdt amount", {"amount_usd"}, "usdt photo"),
              {"network"}))
UsdtManualPhotoReceived ==
  Photo("usdt", "usdt photo", {"photo_file_id"}, "usdt hash")
UsdtManualTxReceived ==
  Quits(Saves(Text("usdt", "usdt hash", {"tx_number"}, Cleared),
         {"amount_usd", "photo_file_id", "network"}))
ShamcashAutoStart ==
  Opens(Wipes(Button("shamcash invoice", Anytime, {}, Same)))
ShamcashAutoCurrencyAsk ==
  Button("shamcash invoice", Anytime, {}, "invoice currency")
ShamcashAutoCurrencySelected ==
  Button("shamcash invoice", Anytime, {"currency"}, "invoice amount")
ShamcashAutoAmountReceived ==
  Quits(Goes("invoice reference", Needs(Saves(
    Strict("shamcash invoice", "invoice amount", {"invoice_id"}, Cleared), {}),
    {"currency"})))
ShamcashAutoTxReceived ==
  Quits(Caught(Needs(
    Text("shamcash invoice", "invoice reference", {}, Cleared),
    {"invoice_id"})))
ShamcashAutoVerifyButton ==
  Button("shamcash invoice", Anytime, {"invoice_id"}, "invoice reference")
ShamcashAutoCancel == Button("shamcash invoice", Anytime, {}, Cleared)
UsdtAutoStart == Opens(Wipes(Button("usdt invoice", Anytime, {}, Same)))
UsdtAutoAmountAsk == Button("usdt invoice", Anytime, {}, "usdt invoice")
UsdtAutoAmountReceived ==
  Quits(Saves(Strict("usdt invoice", "usdt invoice", {"amount"}, Cleared), {}))
\* Buying a product of the catalogue (handlers/games.py, handlers/account.py).
\* The buttons that confirm name the product, the data holds the answers.
SearchProducts ==
  {Opens(Wipes(Menu("search", Anytime, {}, "search"))),
   Text("search", "search", {}, Cleared)}
ProductSelected == Opens(Wipes(Button("purchase", Anytime, {}, Same)))
ProductSelectedPlayer ==
  Opens(Wipes(Button("purchase", Anytime, {"product_id"}, "product player")))
ProductSelectedLink ==
  Opens(Wipes(Button("purchase", Anytime, {"product_id"}, "product link")))
PlayerIdReceived ==
  Quits(Needs(Text("purchase", "product player", {"target", "quantity"}, Same),
        {"product_id"}))
SmmLinkReceived ==
  Quits(Needs(Strict("purchase", "product link", {"target", "quantity"}, Same),
        {"product_id"}))
SmmLinkAsksQuantity ==
  Quits(Needs(
    Strict("purchase", "product link", {"target"}, "product quantity"),
    {"product_id"}))
SmmQuantityReceived ==
  Quits(Needs(Strict("purchase", "product quantity", {"quantity"}, Same),
        {"product_id"}))
ProductCouponStart ==
  Button("purchase", Anytime, {"coupon_product_id"}, "product coupon")
ProductCouponReceived ==
  Quits(Caught(Needs(Text("purchase", "product coupon", {}, Same),
               {"coupon_product_id"})))
ProductFinalConfirm ==
  Quits(Saves(Button("purchase", Anytime, {}, Cleared), {}))
ProductConfirm == ProductFinalConfirm
RepeatOrder ==
  Opens(Wipes(Button("purchase", Anytime, {"product_id", "target", "quantity"},
                    Same)))
MainMenu == Menu("any", Anytime, {}, Same)

\* The texts and limits with a dialogue of their own (admin/settings.py).
SettingForms ==
  UNION ({OneSetting(of) :
            of \in {"support username", "payment text", "welcome message"}}
           \cup {OneNumber(of) :
                    of \in {"large transactions", "order timeout"}})

AllHandlers ==
{ CatAddStart, CatTypeSelected, CatNameReceived, CatEmojiSelected,
  CatCustomEmojiReceived, CatEditStart, CatEditValueReceived,
  SubcatAddStart, SubcatNameReceived, SubcatEmojiSelected,
  SubcatCustomEmojiReceived, SubcatDescriptionReceived,
  SubcatImageOption, SubcatImageUploaded, SubcatImageUrlReceived,
  SubcatImageSkipped, SubcatEditStart, SubcatEditImagePhoto,
  SubcatEditValueReceived, AprovAddStart, AprovProtocolSelected,
  AprovProtocolCustom, AprovCustomConfigReceived, AprovTypeSelected,
  AprovNameReceived, AprovUrlReceived, AprovKeyReceived,
  AprovCurrencySelected, AprovCurrencyCustom,
  AprovCustomCurrencyReceived, AprovTestAndSave, AprovSearchStart,
  AprovSearchQueryReceived, AprovEditNameStart, AprovEditKeyStart,
  AprovEditUrlStart, AprovEditRateStart, AprovEditValueReceived,
  ProdAddStart, ProdNameReceived, ProdPriceReceived, ProdCostReceived,
  ProdFulfillmentSelected, ProdProviderSelected, ProdServiceManual,
  ProdServiceSelected, ProdSvcIdReceived, ProdRequirementsSelected,
  ProdRequirementsQuantity, ProdMinQtyReceived, ProdMaxQtyReceived,
  ProdEditPriceStart, ProdEditNameStart, ProdEditSvcIdStart,
  ProdEditReceived, InventoryAddStart, InventoryValueReceived,
  CouponAddStart, CouponCodeReceived, CouponDtypeSelected,
  CouponValueReceived, CouponMaxUsesReceived, CouponMinOrderReceived,
  CouponExpiresReceived, PromoAddStart, PromoProductReceived,
  PromoNameReceived, PromoTypeSelected, PromoValueReceived,
  PromoDurationReceived, PromoMaxUsesReceived, GiftCreateStart,
  GiftAmountReceived, GiftMaxUsesSelected, GiftExpiryReceived,
  NsvcAddStart, NsvcCodeReceived, NsvcNameReceived, NsvcEmojiReceived,
  NsvcFivesimReceived, NsvcHerosmsReceived, NsvcSmsActivateReceived,
  NsvcSmshubReceived, NsvcEditNameStart, NsvcEditReceived,
  CountryAddStart, CountryCodeReceived, CountryNameReceived,
  CountryFlagReceived, CountryFivesimReceived, CountryHerosmsReceived,
  CountrySmsActivateReceived, CountrySmshubReceived, StarAddStart,
  StarAmountReceived, StarUsdReceived, StarLabelReceived, SettingStart,
  LoyaltySettingStart, GenericSettingReceived, UserAddBalanceStart,
  UserDeductBalanceStart, BalanceAmountReceived, UserSendMsgStart,
  UserSendMsgReceived, TicketReplyStart, TicketReplyReceived,
  TransferStart, TransferRecipientReceived, TransferAmountReceived,
  ReviewStart, ReviewRating, ReviewComment, ReviewSkipComment,
  ShowDepositMenu, ShamcashManualStart, ShamcashManualAmountAsk,
  ShamcashManualAmountReceived, ShamcashManualPhotoReceived,
  ShamcashManualTxReceived, UsdtManualStart, UsdtManualNetworkAsk,
  UsdtManualNetworkSelected, UsdtManualAmountReceived,
  UsdtManualPhotoReceived, UsdtManualTxReceived, ShamcashAutoStart,
  ShamcashAutoCurrencyAsk, ShamcashAutoCurrencySelected,
  ShamcashAutoAmountReceived, ShamcashAutoTxReceived,
  ShamcashAutoVerifyButton, ShamcashAutoCancel, UsdtAutoStart,
  UsdtAutoAmountAsk, UsdtAutoAmountReceived, ProductSelected,
  ProductSelectedPlayer, ProductSelectedLink, PlayerIdReceived,
  SmmLinkReceived, SmmLinkAsksQuantity, SmmQuantityReceived,
  ProductCouponStart, ProductCouponReceived, ProductFinalConfirm,
  ProductConfirm, RepeatOrder, MainMenu}
  \cup SetMaintenanceMsg
  \cup SetMargin
  \cup UserSearch
  \cup MadminAdd
  \cup ChannelAdd
  \cup Broadcast
  \cup SupportTicket
  \cup ProductRequestNew
  \cup GiftRedeem
  \cup AssistantRequest
  \cup SearchProducts
  \cup SettingForms
=============================================================================
