---------------------------- MODULE ConsoleProofs ----------------------------
(***************************************************************************)
(* What a save wrote shows, whatever the admin does.  The tables of pages, *)
(* queries and saves are read off first, and two facts about them proved:  *)
(* a save marks every query that the pages offering it, and the page it    *)
(* lands on, display what it wrote of; and any page at all, but for the    *)
(* queries in Lags and the retention report.  The machine's invariant then says that a copy taken   *)
(* for up to date misses a fact only by a save that does not mark it.      *)
(***************************************************************************)
EXTENDS MCConsole, TLAPS

-----------------------------------------------------------------------------
(* The tables, read off: queries, prefixes, pages and saves *)

LEMMA TheQueries ==
  Queries = {"admins", "users", "user", "activity", "keys", "unassigned", "key",
             "keyRenewals", "keyDaily", "serverList", "server",
             "serverRenewals", "stats", "settings", "orders", "retention",
             "share", "me"}
BY DEF Queries, QueryOf, Both, UserQueries, KeyQueries, ServerQueries,
       DashboardQueries, ShareQuery, MeQuery

LEMMA TheSaves ==
  Saves = {"togglePaid", "syncFromKey", "removeKey", "removeKeyRow", "newKey",
           "overallLimit", "editKey", "syncServer", "syncAll", "removeServer",
           "removeServerCard", "reenable", "addServer", "editServer",
           "bindDomain", "apiUrl", "promote", "unlink", "resetUsage",
           "removeUser", "removeUserRow", "editUser", "newUser", "changeKey",
           "resetShare", "addAdmin", "adminRow", "approve", "rejectOrDelete",
           "settings"}
BY DEF Saves, SaveOf, Both, KeySaves, ServerSaves, UserSaves, AdminSaves

LEMMA ThePages ==
  Pages = {"overview", "servers", "server", "key", "users", "user", "revenue",
           "serverRevenue", "orders", "settings"}
BY DEF Pages, PageParts

LEMMA TheDialogs == DOMAIN DialogParts = {"newUser", "changeKey", "resetShare"}
BY DEF DialogParts

LEMMA QueryRecords ==
  /\ QueryOf["admins"] = UserQueries.admins
  /\ QueryOf["users"] = UserQueries.users
  /\ QueryOf["user"] = UserQueries.user
  /\ QueryOf["activity"] = UserQueries.activity
  /\ QueryOf["keys"] = KeyQueries.keys
  /\ QueryOf["unassigned"] = KeyQueries.unassigned
  /\ QueryOf["key"] = KeyQueries.key
  /\ QueryOf["keyRenewals"] = KeyQueries.keyRenewals
  /\ QueryOf["keyDaily"] = KeyQueries.keyDaily
  /\ QueryOf["serverList"] = ServerQueries.serverList
  /\ QueryOf["server"] = ServerQueries.server
  /\ QueryOf["serverRenewals"] = ServerQueries.serverRenewals
  /\ QueryOf["stats"] = DashboardQueries.stats
  /\ QueryOf["settings"] = DashboardQueries.settings
  /\ QueryOf["orders"] = DashboardQueries.orders
  /\ QueryOf["retention"] = DashboardQueries.retention
  /\ QueryOf["share"] = ShareQuery.share
  /\ QueryOf["me"] = MeQuery.me
BY DEF QueryOf, Both, UserQueries, KeyQueries, ServerQueries,
       DashboardQueries, ShareQuery, MeQuery

LEMMA ReadsAreFacts == ASSUME NEW q \in Queries PROVE QueryOf[q].reads \subseteq Facts
<1>1. CASE q \in {"admins", "users", "user", "activity"}
  BY <1>1, QueryRecords DEF UserQueries, KeyRow, Facts
<1>2. CASE q \in {"keys", "unassigned", "key", "keyRenewals", "keyDaily"}
  BY <1>2, QueryRecords DEF KeyQueries, KeyRow, Facts
<1>3. CASE q \in {"serverList", "server", "serverRenewals"}
  BY <1>3, QueryRecords DEF ServerQueries, ServerRow, KeyRow, Facts
<1>4. CASE q \in {"stats", "settings", "orders", "retention", "share", "me"}
  BY <1>4, QueryRecords DEF DashboardQueries, ShareQuery, MeQuery, Facts
<1> QED BY <1>1, <1>2, <1>3, <1>4, TheQueries

LEMMA UnderUsers == {"users", "user", "activity", "share"} \subseteq Under(<<"users">>)
<1>1. /\ QueryOf["users"].key = <<"users">>
      /\ QueryOf["user"].key = <<"users", "id">>
      /\ QueryOf["activity"].key = <<"users", "id", "activity">>
      /\ QueryOf["share"].key = <<"users", "id", "share">>
  BY QueryRecords DEF UserQueries, ShareQuery
<1>2. /\ IsPrefix(<<"users">>, QueryOf["users"].key)
      /\ IsPrefix(<<"users">>, QueryOf["user"].key)
      /\ IsPrefix(<<"users">>, QueryOf["activity"].key)
      /\ IsPrefix(<<"users">>, QueryOf["share"].key)
  BY <1>1 DEF IsPrefix
<1> QED BY <1>2, TheQueries DEF Under

LEMMA UnderKeys ==
  {"keys", "unassigned", "key", "keyRenewals", "keyDaily"} \subseteq Under(<<"keys">>)
<1>1. /\ QueryOf["keys"].key = <<"keys">>
      /\ QueryOf["unassigned"].key = <<"keys", "unassigned">>
      /\ QueryOf["key"].key = <<"keys", "id">>
      /\ QueryOf["keyRenewals"].key = <<"keys", "id", "renewals">>
      /\ QueryOf["keyDaily"].key = <<"keys", "id", "daily">>
  BY QueryRecords DEF KeyQueries
<1>2. /\ IsPrefix(<<"keys">>, QueryOf["keys"].key)
      /\ IsPrefix(<<"keys">>, QueryOf["unassigned"].key)
      /\ IsPrefix(<<"keys">>, QueryOf["key"].key)
      /\ IsPrefix(<<"keys">>, QueryOf["keyRenewals"].key)
      /\ IsPrefix(<<"keys">>, QueryOf["keyDaily"].key)
  BY <1>1 DEF IsPrefix
<1> QED BY <1>2, TheQueries DEF Under

LEMMA UnderServers ==
  {"serverList", "server", "serverRenewals"} \subseteq Under(<<"servers">>)
<1>1. /\ QueryOf["serverList"].key = <<"servers", "window">>
      /\ QueryOf["server"].key = <<"servers", "id", "window">>
      /\ QueryOf["serverRenewals"].key = <<"servers", "id", "renewals">>
  BY QueryRecords DEF ServerQueries
<1>2. /\ IsPrefix(<<"servers">>, QueryOf["serverList"].key)
      /\ IsPrefix(<<"servers">>, QueryOf["server"].key)
      /\ IsPrefix(<<"servers">>, QueryOf["serverRenewals"].key)
  BY <1>1 DEF IsPrefix
<1> QED BY <1>2, TheQueries DEF Under

LEMMA UnderOthers ==
  /\ "stats" \in Under(<<"stats">>)
  /\ "admins" \in Under(<<"admins">>)
  /\ "orders" \in Under(<<"orders">>)
  /\ "keyRenewals" \in Under(<<"keys", "id", "renewals">>)
  /\ "share" \in Under(<<"users", "id", "share">>)
<1>1. /\ QueryOf["stats"].key = <<"stats">>
      /\ QueryOf["admins"].key = <<"admins">>
      /\ QueryOf["orders"].key = <<"orders", "status">>
      /\ QueryOf["keyRenewals"].key = <<"keys", "id", "renewals">>
      /\ QueryOf["share"].key = <<"users", "id", "share">>
  BY QueryRecords DEF UserQueries, KeyQueries, DashboardQueries, ShareQuery
<1>2. /\ IsPrefix(<<"stats">>, QueryOf["stats"].key)
      /\ IsPrefix(<<"admins">>, QueryOf["admins"].key)
      /\ IsPrefix(<<"orders">>, QueryOf["orders"].key)
      /\ IsPrefix(<<"keys", "id", "renewals">>, QueryOf["keyRenewals"].key)
      /\ IsPrefix(<<"users", "id", "share">>, QueryOf["share"].key)
  BY <1>1 DEF IsPrefix
<1> QED BY <1>2, TheQueries DEF Under

LEMMA MarkedByPrefix ==
  ASSUME NEW m \in Saves, NEW p \in SaveOf[m].invalidates
  PROVE  Under(p) \subseteq Invalidated[m]
BY DEF Invalidated

LEMMA SaveRecords ==
  /\ SaveOf["togglePaid"] = TogglePaid
  /\ SaveOf["syncFromKey"] = SyncFromKey
  /\ SaveOf["removeKey"] = RemoveKeyFromPage
  /\ SaveOf["removeKeyRow"] = RemoveKeyFromTable
  /\ SaveOf["newKey"] = NewKeyDialog
  /\ SaveOf["overallLimit"] = OverallLimitDialog
  /\ SaveOf["editKey"] = EditKeyDialog
  /\ SaveOf["syncServer"] = SyncServer
  /\ SaveOf["syncAll"] = SyncAllButton
  /\ SaveOf["removeServer"] = RemoveServer
  /\ SaveOf["removeServerCard"] = RemoveServerCard
  /\ SaveOf["reenable"] = ReenableBandwidth
  /\ SaveOf["addServer"] = AddServerDialog
  /\ SaveOf["editServer"] = EditServerSave
  /\ SaveOf["bindDomain"] = BindDomain
  /\ SaveOf["apiUrl"] = UpdateAPIURL
  /\ SaveOf["promote"] = Promote
  /\ SaveOf["unlink"] = Unlink
  /\ SaveOf["resetUsage"] = ResetUsage
  /\ SaveOf["removeUser"] = RemoveUserFromPage
  /\ SaveOf["removeUserRow"] = RemoveUserFromTable
  /\ SaveOf["editUser"] = EditUserDialog
  /\ SaveOf["newUser"] = NewUserDialog
  /\ SaveOf["changeKey"] = ChangeKeyDialog
  /\ SaveOf["resetShare"] = ResetUserShare
  /\ SaveOf["addAdmin"] = NewAdminDialog
  /\ SaveOf["adminRow"] = AdminTableSave
  /\ SaveOf["approve"] = ApproveOrder
  /\ SaveOf["rejectOrDelete"] = DecideOrder
  /\ SaveOf["settings"] = SettingsSave
BY DEF SaveOf, Both, KeySaves, ServerSaves, UserSaves, AdminSaves

-----------------------------------------------------------------------------
(* What is on the screen *)

LEMMA ScreenParts ==
  ASSUME NEW p \in Pages, NEW d \in {"none"} \cup DOMAIN DialogParts
  PROVE  Shown[<<p, d>>] = AppSidebar \cup PageParts[p]
                       \cup (IF d = "none" THEN {} ELSE DialogParts[d])
BY DEF Shown, Screens

LEMMA DialogAddsToPage ==
  ASSUME NEW p \in Pages, NEW d \in {"none"} \cup DOMAIN DialogParts
  PROVE  Shown[<<p, "none">>] \subseteq Shown[<<p, d>>]
BY ScreenParts

\* Something displayed is observed.
LEMMA ShownIsObserved ==
  ASSUME NEW p \in Pages, NEW d \in {"none"} \cup DOMAIN DialogParts,
         NEW q, NEW f, <<q, f>> \in Shown[<<p, d>>]
  PROVE  q \in Observed[<<p, d>>]
BY DEF Observed, Screens

LEMMA KeyPageShows ==
  ASSUME NEW q, NEW f, <<q, f>> \in KeyDetailPage
  PROVE  \/ q = "key" /\ f \in {"user", "name", "plan", "usage", "link", "holder"}
         \/ q = "keyRenewals" /\ f \in {"renewal", "payment"}
         \/ q = "keyDaily" /\ f = "usage"
         \/ q = "server" /\ f \in {"host", "metrics", "label"}
BY DEF KeyDetailPage, Of, KeyHeader, UsageBar, KeyStatsGrid, KeyPlanCard,
       KeyConnectionCard, RenewalHistory, KeyLimitHistoryChart,
       DailyTrafficCard, KeyUsageDonut, KeyCrumbs

LEMMA ServerPageShows ==
  ASSUME NEW q, NEW f, <<q, f>> \in ServerDetailPage
  PROVE  q = "server" /\ f \in {"keys", "name", "plan", "usage", "link",
                                "metrics", "srv", "label", "default", "holder",
                                "user"}
BY DEF ServerDetailPage, Of, ServerHeader, BandwidthAlert, ServerStats,
       KeysTable, KeysTableColumns, KeyUsageCell, KeyExpiryCell, ServerCrumbs

LEMMA ServersPageShows ==
  ASSUME NEW q, NEW f, <<q, f>> \in ServersPage
  PROVE  q = "serverList" /\ f \in {"keys", "servers", "usage", "metrics", "srv",
                                    "label"}
BY DEF ServersPage, Of, ServerCard

LEMMA UsersPageShows ==
  ASSUME NEW q, NEW f, <<q, f>> \in UsersPage
  PROVE  \/ q = "admins" /\ f = "admin"
         \/ q = "users" /\ f \in {"users", "user", "plan", "price", "usage",
                                  "label", "primary"}
         \/ q = "serverList" /\ f = "srv"
BY DEF UsersPage, Of, UsersTable, HolderStatus, HolderUsageCell,
       HolderExpiryCell, AdminsTable

LEMMA UserPageShows ==
  ASSUME NEW q, NEW f, <<q, f>> \in UserDetailPage
  PROVE  \/ q = "user" /\ f \in {"users", "user", "name", "plan", "price",
                                 "usage", "link", "holder", "primary", "label"}
         \/ q = "activity" /\ f = "activity"
         \/ q = "keyRenewals" /\ f = "renewal"
         \/ q = "keyDaily" /\ f = "usage"
         \/ q = "server" /\ f \in {"host", "metrics", "srv"}
BY DEF UserDetailPage, Of, UserHeader, UserStatsGrid, UserPlanCard, UsageBar,
       UserConnectionCard, DailyTrafficCard, KeyLimitHistoryChart,
       OtherKeysCard, UserActivityLogTable, UserCrumbs

LEMMA OverviewPageShows ==
  ASSUME NEW q, NEW f, <<q, f>> \in OverviewPage
  PROVE  \/ q = "keys" /\ f \in {"keys", "name", "user", "plan", "usage",
                                 "holder", "label"}
         \/ q = "serverList" /\ f \in {"keys", "servers", "plan", "price", "usage",
                                       "metrics", "srv", "label", "renewal"}
         \/ q = "stats" /\ f \in {"keys", "plan", "usage"}
         \/ q = "settings" /\ f = "settings"
         \/ q = "retention"
BY DEF OverviewPage, Of, OverviewTotals, BandwidthConsumptionCard,
       CompareServersCard, RevenueTrendCard, KeysAttentionCard,
       FleetHealthCard, RetentionCard

LEMMA RevenuePagesShow ==
  ASSUME NEW q, NEW f, <<q, f>> \in RevenuePage \cup ServerRevenueDetailPage
  PROVE  \/ q = "serverList" /\ f \in {"keys", "servers", "plan", "price", "srv",
                                       "label", "renewal"}
         \/ q = "serverRenewals" /\ f \in {"keys", "user", "name", "holder",
                                           "renewal", "payment"}
         \/ q = "settings" /\ f = "settings"
BY DEF RevenuePage, ServerRevenueDetailPage, Of, RevenueTable, ServerRevenue, RevenueTrendCard,
       ServerRenewalHistoryTable

LEMMA DialogsShow ==
  ASSUME NEW d \in DOMAIN DialogParts, NEW q, NEW f, <<q, f>> \in DialogParts[d]
  PROVE  \/ q = "unassigned" /\ f \in {"keys", "name", "plan", "usage", "holder"}
         \/ q = "serverList" /\ f \in {"keys", "srv", "label", "default"}
         \/ q = "share" /\ f = "share"
BY DEF DialogParts, Of, ServerSelect, KeySourceFields, UserShareDialog

\* The facts some screen displays of each query.
Displays(q, f) ==
  \/ q = "me" /\ f = "me"
  \/ q = "key" /\ f \in {"user", "name", "plan", "usage", "link", "holder"}
  \/ q = "keyRenewals" /\ f \in {"renewal", "payment"}
  \/ q = "keyDaily" /\ f = "usage"
  \/ q = "server" /\ f \in {"keys", "name", "plan", "usage", "link", "host",
                            "metrics", "srv", "label", "default", "holder", "user"}
  \/ q = "serverList" /\ f \in {"keys", "servers", "plan", "price", "usage",
                                "metrics", "srv", "label", "default", "renewal"}
  \/ q = "serverRenewals" /\ f \in {"keys", "user", "name", "holder", "renewal",
                                    "payment"}
  \/ q = "admins" /\ f = "admin"
  \/ q = "users" /\ f \in {"users", "user", "plan", "price", "usage", "label",
                           "primary"}
  \/ q = "user" /\ f \in {"users", "user", "name", "plan", "price", "usage",
                          "link", "holder", "primary", "label"}
  \/ q = "activity" /\ f = "activity"
  \/ q = "keys" /\ f \in {"keys", "name", "user", "plan", "usage", "holder",
                          "label"}
  \/ q = "unassigned" /\ f \in {"keys", "name", "plan", "usage", "holder"}
  \/ q = "stats" /\ f \in {"keys", "plan", "usage"}
  \/ q = "settings" /\ f = "settings"
  \/ q = "orders" /\ f \in {"order", "label"}
  \/ q = "retention"
  \/ q = "share" /\ f = "share"

LEMMA ShownIsDisplayed ==
  ASSUME NEW p \in Pages, NEW d \in {"none"} \cup DOMAIN DialogParts,
         NEW q, NEW f, <<q, f>> \in Shown[<<p, d>>]
  PROVE  Displays(q, f)
<1>1. CASE <<q, f>> \in AppSidebar BY <1>1 DEF AppSidebar, Of, Displays
<1>2. CASE d # "none" /\ <<q, f>> \in DialogParts[d]
  BY <1>2, DialogsShow DEF Displays
<1>3. CASE <<q, f>> \in PageParts[p]
  <2>1. CASE p = "key" BY <1>3, <2>1, KeyPageShows DEF PageParts, Displays
  <2>2. CASE p = "server" BY <1>3, <2>2, ServerPageShows DEF PageParts, Displays
  <2>3. CASE p = "servers" BY <1>3, <2>3, ServersPageShows DEF PageParts, Displays
  <2>4. CASE p = "users" BY <1>3, <2>4, UsersPageShows DEF PageParts, Displays
  <2>5. CASE p = "user" BY <1>3, <2>5, UserPageShows DEF PageParts, Displays
  <2>6. CASE p = "overview" BY <1>3, <2>6, OverviewPageShows DEF PageParts, Displays
  <2>7. CASE p \in {"revenue", "serverRevenue"}
    BY <1>3, <2>7, RevenuePagesShow DEF PageParts, Displays
  <2>8. CASE p = "orders"
    BY <1>3, <2>8 DEF PageParts, OrdersPage, Of, Displays
  <2>9. CASE p = "settings"
    BY <1>3, <2>9 DEF PageParts, SettingsPage, Of, Displays
  <2> QED BY <2>1, <2>2, <2>3, <2>4, <2>5, <2>6, <2>7, <2>8, <2>9, ThePages
<1> QED BY <1>1, <1>2, <1>3, ScreenParts

-----------------------------------------------------------------------------
(* What a save leaves unmarked *)

LEMMA Marks ==
  ASSUME NEW m \in Saves
  PROVE  LET given == SaveOf[m].invalidates
             marked == Invalidated[m]
         IN /\ <<"users">> \in given => {"users", "user", "activity", "share"} \subseteq marked
            /\ <<"keys">> \in given => {"keys", "unassigned", "key", "keyRenewals",
                                      "keyDaily"} \subseteq marked
            /\ <<"servers">> \in given => {"serverList", "server", "serverRenewals"} \subseteq marked
            /\ <<"stats">> \in given => "stats" \in marked
            /\ <<"admins">> \in given => "admins" \in marked
            /\ <<"orders">> \in given => "orders" \in marked
            /\ <<"keys", "id", "renewals">> \in given => "keyRenewals" \in marked
            /\ <<"users", "id", "share">> \in given => "share" \in marked
BY MarkedByPrefix, UnderUsers, UnderKeys, UnderServers, UnderOthers

\* The queries Lags gives a save, and the report no save marks.
Lagging(m) == {"retention"} \cup IF m \in DOMAIN Lags THEN Lags[m] ELSE {}

LEMMA SettingsAreFilled == Filled["settings"] = {"settings"} /\ DOMAIN SetsData = {"settings"}
BY TheSaves DEF Filled, SetsData

LEMMA KeySavesLag ==
  ASSUME NEW m \in DOMAIN KeySaves, NEW q, NEW f \in SaveOf[m].writes, Displays(q, f)
  PROVE  q \in Invalidated[m] \cup Filled[m] \cup Lagging(m)
<1>1. m \in Saves BY TheSaves DEF KeySaves
<1>2. CASE m = "togglePaid"
  <2>1. SaveOf[m] = TogglePaid BY <1>2, SaveRecords
  <2>2. /\ TogglePaid.writes = {"payment"}
        /\ {<<"keys", "id", "renewals">>} \subseteq TogglePaid.invalidates
    BY DEF TogglePaid, SaveOn
  <2> QED BY <1>1, <1>2, <2>1, <2>2, Marks DEF Displays, Lagging, Lags
<1>3. CASE m = "syncFromKey"
  <2>1. SaveOf[m] = SyncFromKey BY <1>3, SaveRecords
  <2>2. /\ SyncFromKey.writes = {"keys", "name", "plan", "usage", "link", "srv", "holder"}
        /\ {<<"users">>, <<"keys">>, <<"servers">>} \subseteq SyncFromKey.invalidates
    BY DEF SyncFromKey, SaveOn, SyncWrites
  <2> QED BY <1>1, <1>3, <2>1, <2>2, Marks DEF Displays, Lagging, Lags
<1>4. CASE m = "removeKey"
  <2>1. SaveOf[m] = RemoveKeyFromPage BY <1>4, SaveRecords
  <2>2. /\ RemoveKeyFromPage.writes = {"keys", "holder", "primary"}
        /\ {<<"users">>, <<"keys">>, <<"stats">>, <<"servers">>} \subseteq RemoveKeyFromPage.invalidates
    BY DEF RemoveKeyFromPage, SaveOn
  <2> QED BY <1>1, <1>4, <2>1, <2>2, Marks DEF Displays, Lagging, Lags
<1>5. CASE m = "removeKeyRow"
  <2>1. SaveOf[m] = RemoveKeyFromTable BY <1>5, SaveRecords
  <2>2. /\ RemoveKeyFromTable.writes = {"keys", "holder", "primary"}
        /\ {<<"keys">>, <<"stats">>, <<"servers">>} \subseteq RemoveKeyFromTable.invalidates
    BY DEF RemoveKeyFromTable, SaveOn
  <2> QED BY <1>1, <1>5, <2>1, <2>2, Marks DEF Displays, Lagging, Lags
<1>6. CASE m = "newKey"
  <2>1. SaveOf[m] = NewKeyDialog BY <1>6, SaveRecords
  <2>2. /\ NewKeyDialog.writes = {"keys"}
        /\ {<<"stats">>, <<"servers">>} \subseteq NewKeyDialog.invalidates
    BY DEF NewKeyDialog, SaveOn
  <2> QED BY <1>1, <1>6, <2>1, <2>2, Marks DEF Displays, Lagging, Lags
<1>7. CASE m = "overallLimit"
  <2>1. SaveOf[m] = OverallLimitDialog BY <1>7, SaveRecords
  <2>2. /\ OverallLimitDialog.writes = {"plan", "default"}
        /\ {<<"users">>, <<"keys">>, <<"servers">>} \subseteq OverallLimitDialog.invalidates
    BY DEF OverallLimitDialog, SaveOn
  <2> QED BY <1>1, <1>7, <2>1, <2>2, Marks DEF Displays, Lagging, Lags
<1>8. CASE m = "editKey"
  <2>1. SaveOf[m] = EditKeyDialog BY <1>8, SaveRecords
  <2>2. /\ EditKeyDialog.writes = {"activity", "name", "plan", "price", "renewal"}
        /\ {<<"users">>, <<"keys">>, <<"stats">>, <<"servers">>} \subseteq EditKeyDialog.invalidates
    BY DEF EditKeyDialog, SaveOn
  <2> QED BY <1>1, <1>8, <2>1, <2>2, Marks DEF Displays, Lagging, Lags
<1> QED BY <1>2, <1>3, <1>4, <1>5, <1>6, <1>7, <1>8 DEF KeySaves

LEMMA ServerSavesLag ==
  ASSUME NEW m \in DOMAIN ServerSaves, NEW q, NEW f \in SaveOf[m].writes, Displays(q, f)
  PROVE  q \in Invalidated[m] \cup Filled[m] \cup Lagging(m)
<1>1. m \in Saves BY TheSaves DEF ServerSaves
<1>2. CASE m = "syncServer"
  <2>1. SaveOf[m] = SyncServer BY <1>2, SaveRecords
  <2>2. /\ SyncServer.writes = {"keys", "name", "plan", "usage", "link", "srv", "holder"}
        /\ {<<"users">>, <<"keys">>, <<"servers">>} \subseteq SyncServer.invalidates
    BY DEF SyncServer, SaveOn, SyncWrites
  <2> QED BY <1>1, <1>2, <2>1, <2>2, Marks DEF Displays, Lagging, Lags
<1>3. CASE m = "syncAll"
  <2>1. SaveOf[m] = SyncAllButton BY <1>3, SaveRecords
  <2>2. /\ SyncAllButton.writes = {"keys", "name", "plan", "usage", "link", "srv", "holder"}
        /\ {<<"users">>, <<"keys">>, <<"stats">>, <<"servers">>} \subseteq SyncAllButton.invalidates
    BY DEF SyncAllButton, SaveOn, SyncWrites
  <2> QED BY <1>1, <1>3, <2>1, <2>2, Marks DEF Displays, Lagging, Lags
<1>4. CASE m = "removeServer"
  <2>1. SaveOf[m] = RemoveServer BY <1>4, SaveRecords
  <2>2. /\ RemoveServer.writes = {"keys", "servers", "holder", "primary"}
        /\ {<<"stats">>, <<"servers">>} \subseteq RemoveServer.invalidates
    BY DEF RemoveServer, SaveOn
  <2> QED BY <1>1, <1>4, <2>1, <2>2, Marks DEF Displays, Lagging, Lags
<1>5. CASE m = "removeServerCard"
  <2>1. SaveOf[m] = RemoveServerCard BY <1>5, SaveRecords
  <2>2. /\ RemoveServerCard.writes = {"keys", "servers", "holder", "primary"}
        /\ {<<"stats">>, <<"servers">>} \subseteq RemoveServerCard.invalidates
    BY DEF RemoveServerCard, RemoveServer, SaveOn
  <2> QED BY <1>1, <1>5, <2>1, <2>2, Marks DEF Displays, Lagging, Lags
<1>6. CASE m = "reenable"
  <2>1. SaveOf[m] = ReenableBandwidth BY <1>6, SaveRecords
  <2>2. /\ ReenableBandwidth.writes = {"plan", "srv"}
        /\ {<<"users">>, <<"keys">>, <<"servers">>} \subseteq ReenableBandwidth.invalidates
    BY DEF ReenableBandwidth, SaveOn
  <2> QED BY <1>1, <1>6, <2>1, <2>2, Marks DEF Displays, Lagging, Lags
<1>7. CASE m = "addServer"
  <2>1. SaveOf[m] = AddServerDialog BY <1>7, SaveRecords
  <2>2. /\ AddServerDialog.writes = {"keys", "servers"}
        /\ {<<"servers">>} \subseteq AddServerDialog.invalidates
    BY DEF AddServerDialog, SaveOn
  <2> QED BY <1>1, <1>7, <2>1, <2>2, Marks DEF Displays, Lagging, Lags
<1>8. CASE m = "editServer"
  <2>1. SaveOf[m] = EditServerSave BY <1>8, SaveRecords
  <2>2. /\ EditServerSave.writes = {"srv", "label"}
        /\ {<<"servers">>} \subseteq EditServerSave.invalidates
    BY DEF EditServerSave, SaveOn
  <2> QED BY <1>1, <1>8, <2>1, <2>2, Marks DEF Displays, Lagging, Lags
<1>9. CASE m = "bindDomain"
  <2>1. SaveOf[m] = BindDomain BY <1>9, SaveRecords
  <2>2. /\ BindDomain.writes = {"link", "host"}
        /\ {<<"users">>, <<"keys">>, <<"servers">>} \subseteq BindDomain.invalidates
    BY DEF BindDomain, SaveOn
  <2> QED BY <1>1, <1>9, <2>1, <2>2, Marks DEF Displays, Lagging, Lags
<1>10. CASE m = "apiUrl"
  <2>1. SaveOf[m] = UpdateAPIURL BY <1>10, SaveRecords
  <2>2. /\ UpdateAPIURL.writes = {"srv"}
        /\ {<<"servers">>} \subseteq UpdateAPIURL.invalidates
    BY DEF UpdateAPIURL, SaveOn
  <2> QED BY <1>1, <1>10, <2>1, <2>2, Marks DEF Displays, Lagging, Lags
<1> QED BY <1>2, <1>3, <1>4, <1>5, <1>6, <1>7, <1>8, <1>9, <1>10 DEF ServerSaves

LEMMA UserSavesLag ==
  ASSUME NEW m \in DOMAIN UserSaves, NEW q, NEW f \in SaveOf[m].writes, Displays(q, f)
  PROVE  q \in Invalidated[m] \cup Filled[m] \cup Lagging(m)
<1>1. m \in Saves BY TheSaves DEF UserSaves
<1>2. CASE m = "promote"
  <2>1. SaveOf[m] = Promote BY <1>2, SaveRecords
  <2>2. /\ Promote.writes = {"activity", "primary"}
        /\ {<<"users">>} \subseteq Promote.invalidates
    BY DEF Promote, SaveOn
  <2> QED BY <1>1, <1>2, <2>1, <2>2, Marks DEF Displays, Lagging, Lags
<1>3. CASE m = "unlink"
  <2>1. SaveOf[m] = Unlink BY <1>3, SaveRecords
  <2>2. /\ Unlink.writes = {"activity", "holder", "primary"}
        /\ {<<"users">>, <<"keys">>} \subseteq Unlink.invalidates
    BY DEF Unlink, SaveOn
  <2> QED BY <1>1, <1>3, <2>1, <2>2, Marks DEF Displays, Lagging, Lags
<1>4. CASE m = "resetUsage"
  <2>1. SaveOf[m] = ResetUsage BY <1>4, SaveRecords
  <2>2. /\ ResetUsage.writes = {"activity", "keys", "link", "plan", "primary", "usage"}
        /\ {<<"users">>, <<"keys">>, <<"stats">>, <<"servers">>} \subseteq ResetUsage.invalidates
    BY DEF ResetUsage, SaveOn
  <2> QED BY <1>1, <1>4, <2>1, <2>2, Marks DEF Displays, Lagging, Lags
<1>5. CASE m = "removeUser"
  <2>1. SaveOf[m] = RemoveUserFromPage BY <1>5, SaveRecords
  <2>2. /\ RemoveUserFromPage.writes = {"users", "holder", "primary"}
        /\ {<<"users">>, <<"keys">>} \subseteq RemoveUserFromPage.invalidates
    BY DEF RemoveUserFromPage, SaveOn
  <2> QED BY <1>1, <1>5, <2>1, <2>2, Marks DEF Displays, Lagging, Lags
<1>6. CASE m = "removeUserRow"
  <2>1. SaveOf[m] = RemoveUserFromTable BY <1>6, SaveRecords
  <2>2. /\ RemoveUserFromTable.writes = {"users", "holder", "primary"}
        /\ {<<"users">>, <<"keys">>} \subseteq RemoveUserFromTable.invalidates
    BY DEF RemoveUserFromTable, RemoveUserFromPage, SaveOn
  <2> QED BY <1>1, <1>6, <2>1, <2>2, Marks DEF Displays, Lagging, Lags
<1>7. CASE m = "editUser"
  <2>1. SaveOf[m] = EditUserDialog BY <1>7, SaveRecords
  <2>2. /\ EditUserDialog.writes = {"user", "activity"}
        /\ {<<"users">>} \subseteq EditUserDialog.invalidates
    BY DEF EditUserDialog, SaveOn
  <2> QED BY <1>1, <1>7, <2>1, <2>2, Marks DEF Displays, Lagging, Lags
<1>8. CASE m = "newUser"
  <2>1. SaveOf[m] = NewUserDialog BY <1>8, SaveRecords
  <2>2. /\ NewUserDialog.writes = {"users", "keys", "plan", "holder", "primary"}
        /\ {<<"users">>, <<"keys">>, <<"stats">>, <<"servers">>} \subseteq NewUserDialog.invalidates
    BY DEF NewUserDialog, SaveOn
  <2> QED BY <1>1, <1>8, <2>1, <2>2, Marks DEF Displays, Lagging, Lags
<1>9. CASE m = "changeKey"
  <2>1. SaveOf[m] = ChangeKeyDialog BY <1>9, SaveRecords
  <2>2. /\ ChangeKeyDialog.writes = {"activity", "keys", "holder", "primary"}
        /\ {<<"users">>, <<"keys">>, <<"stats">>, <<"servers">>} \subseteq ChangeKeyDialog.invalidates
    BY DEF ChangeKeyDialog, SaveOn
  <2> QED BY <1>1, <1>9, <2>1, <2>2, Marks DEF Displays, Lagging, Lags
<1>10. CASE m = "resetShare"
  <2>1. SaveOf[m] = ResetUserShare BY <1>10, SaveRecords
  <2>2. /\ ResetUserShare.writes = {"share"}
        /\ {<<"users", "id", "share">>} \subseteq ResetUserShare.invalidates
    BY DEF ResetUserShare, SaveOn
  <2> QED BY <1>1, <1>10, <2>1, <2>2, Marks DEF Displays, Lagging, Lags
<1> QED BY <1>2, <1>3, <1>4, <1>5, <1>6, <1>7, <1>8, <1>9, <1>10 DEF UserSaves

LEMMA AdminSavesLag ==
  ASSUME NEW m \in DOMAIN AdminSaves, NEW q, NEW f \in SaveOf[m].writes, Displays(q, f)
  PROVE  q \in Invalidated[m] \cup Filled[m] \cup Lagging(m)
<1>1. m \in Saves BY TheSaves DEF AdminSaves
<1>2. CASE m = "addAdmin"
  <2>1. SaveOf[m] = NewAdminDialog BY <1>2, SaveRecords
  <2>2. /\ NewAdminDialog.writes = {"admin"}
        /\ {<<"admins">>} \subseteq NewAdminDialog.invalidates
    BY DEF NewAdminDialog, SaveOn
  <2> QED BY <1>1, <1>2, <2>1, <2>2, Marks DEF Displays, Lagging, Lags
<1>3. CASE m = "adminRow"
  <2>1. SaveOf[m] = AdminTableSave BY <1>3, SaveRecords
  <2>2. /\ AdminTableSave.writes = {"admin"}
        /\ {<<"admins">>} \subseteq AdminTableSave.invalidates
    BY DEF AdminTableSave, SaveOn
  <2> QED BY <1>1, <1>3, <2>1, <2>2, Marks DEF Displays, Lagging, Lags
<1>4. CASE m = "approve"
  <2>1. SaveOf[m] = ApproveOrder BY <1>4, SaveRecords
  <2>2. /\ ApproveOrder.writes = {"users", "keys", "holder", "primary", "order"}
        /\ {<<"orders">>} \subseteq ApproveOrder.invalidates
    BY DEF ApproveOrder, SaveOn
  <2> QED BY <1>1, <1>4, <2>1, <2>2, Marks DEF Displays, Lagging, Lags
<1>5. CASE m = "rejectOrDelete"
  <2>1. SaveOf[m] = DecideOrder BY <1>5, SaveRecords
  <2>2. /\ DecideOrder.writes = {"order"}
        /\ {<<"orders">>} \subseteq DecideOrder.invalidates
    BY DEF DecideOrder, SaveOn
  <2> QED BY <1>1, <1>5, <2>1, <2>2, Marks DEF Displays, Lagging, Lags
<1>6. CASE m = "settings"
  <2>1. SaveOf[m] = SettingsSave BY <1>6, SaveRecords
  <2>2. SettingsSave.writes = {"settings"} BY DEF SettingsSave, SaveOn
  <2> QED BY <1>1, <1>6, <2>1, <2>2, Marks, SettingsAreFilled DEF Displays, Lagging, Lags
<1> QED BY <1>2, <1>3, <1>4, <1>5, <1>6 DEF AdminSaves

\* Wherever a fact is displayed, a save that writes it marks the query or is
\* listed in Lags with it.
LEMMA UnmarkedLags ==
  ASSUME NEW m \in Saves, NEW p \in Pages, NEW d \in {"none"} \cup DOMAIN DialogParts,
         NEW q, NEW f \in SaveOf[m].writes, <<q, f>> \in Shown[<<p, d>>]
  PROVE  q \in Invalidated[m] \cup Filled[m] \cup Lagging(m)
<1>1. Displays(q, f) BY ShownIsDisplayed
<1>2. Saves = DOMAIN KeySaves \cup DOMAIN ServerSaves \cup DOMAIN UserSaves \cup DOMAIN AdminSaves
  BY TheSaves DEF KeySaves, ServerSaves, UserSaves, AdminSaves
<1> QED BY <1>1, <1>2, KeySavesLag, ServerSavesLag, UserSavesLag, AdminSavesLag

-----------------------------------------------------------------------------
(* Where a save is offered, and the page it lands on *)

LEMMA KeySavesPlaces ==
  ASSUME NEW m \in DOMAIN KeySaves
  PROVE  \/ m = "togglePaid" /\ SaveOf[m].on = {"key"} /\ SaveOf[m].lands = ""
         \/ m = "syncFromKey" /\ SaveOf[m].on = {"key"} /\ SaveOf[m].lands = ""
         \/ m = "removeKey" /\ SaveOf[m].on = {"key"} /\ SaveOf[m].lands = "server"
         \/ m = "removeKeyRow" /\ SaveOf[m].on = {"server"} /\ SaveOf[m].lands = ""
         \/ m = "newKey" /\ SaveOf[m].on = {"server"} /\ SaveOf[m].lands = ""
         \/ m = "overallLimit" /\ SaveOf[m].on = {"server"} /\ SaveOf[m].lands = ""
         \/ m = "editKey" /\ SaveOf[m].on = {"key", "server", "user"} /\ SaveOf[m].lands = ""
<1>1. /\ TogglePaid.on = {"key"} /\ TogglePaid.lands = ""
      /\ SyncFromKey.on = {"key"} /\ SyncFromKey.lands = ""
      /\ RemoveKeyFromPage.on = {"key"} /\ RemoveKeyFromPage.lands = "server"
      /\ RemoveKeyFromTable.on = {"server"} /\ RemoveKeyFromTable.lands = ""
      /\ NewKeyDialog.on = {"server"} /\ NewKeyDialog.lands = ""
      /\ OverallLimitDialog.on = {"server"} /\ OverallLimitDialog.lands = ""
      /\ EditKeyDialog.on = {"key", "server", "user"} /\ EditKeyDialog.lands = ""
  BY DEF SaveOn, TogglePaid, SyncFromKey, RemoveKeyFromPage, RemoveKeyFromTable, NewKeyDialog, OverallLimitDialog, EditKeyDialog
<1>2. CASE m = "togglePaid" BY <1>1, <1>2, SaveRecords
<1>3. CASE m = "syncFromKey" BY <1>1, <1>3, SaveRecords
<1>4. CASE m = "removeKey" BY <1>1, <1>4, SaveRecords
<1>5. CASE m = "removeKeyRow" BY <1>1, <1>5, SaveRecords
<1>6. CASE m = "newKey" BY <1>1, <1>6, SaveRecords
<1>7. CASE m = "overallLimit" BY <1>1, <1>7, SaveRecords
<1>8. CASE m = "editKey" BY <1>1, <1>8, SaveRecords
<1> QED BY <1>2, <1>3, <1>4, <1>5, <1>6, <1>7, <1>8 DEF KeySaves

LEMMA ServerSavesPlaces ==
  ASSUME NEW m \in DOMAIN ServerSaves
  PROVE  \/ m = "syncServer" /\ SaveOf[m].on = {"server"} /\ SaveOf[m].lands = ""
         \/ m = "syncAll" /\ SaveOf[m].on = {"servers", "users"} /\ SaveOf[m].lands = ""
         \/ m = "removeServer" /\ SaveOf[m].on = {"server"} /\ SaveOf[m].lands = "servers"
         \/ m = "removeServerCard" /\ SaveOf[m].on = {"servers"} /\ SaveOf[m].lands = ""
         \/ m = "reenable" /\ SaveOf[m].on = {"server", "servers"} /\ SaveOf[m].lands = ""
         \/ m = "addServer" /\ SaveOf[m].on = {"servers"} /\ SaveOf[m].lands = ""
         \/ m = "editServer" /\ SaveOf[m].on = {"server"} /\ SaveOf[m].lands = ""
         \/ m = "bindDomain" /\ SaveOf[m].on = {"server"} /\ SaveOf[m].lands = ""
         \/ m = "apiUrl" /\ SaveOf[m].on = {"server"} /\ SaveOf[m].lands = ""
<1>1. /\ SyncServer.on = {"server"} /\ SyncServer.lands = ""
      /\ SyncAllButton.on = {"servers", "users"} /\ SyncAllButton.lands = ""
      /\ RemoveServer.on = {"server"} /\ RemoveServer.lands = "servers"
      /\ RemoveServerCard.on = {"servers"} /\ RemoveServerCard.lands = ""
      /\ ReenableBandwidth.on = {"server", "servers"} /\ ReenableBandwidth.lands = ""
      /\ AddServerDialog.on = {"servers"} /\ AddServerDialog.lands = ""
      /\ EditServerSave.on = {"server"} /\ EditServerSave.lands = ""
      /\ BindDomain.on = {"server"} /\ BindDomain.lands = ""
      /\ UpdateAPIURL.on = {"server"} /\ UpdateAPIURL.lands = ""
  BY DEF SaveOn, SyncServer, SyncAllButton, RemoveServer, RemoveServerCard, RemoveServer, ReenableBandwidth, AddServerDialog, EditServerSave, BindDomain, UpdateAPIURL
<1>2. CASE m = "syncServer" BY <1>1, <1>2, SaveRecords
<1>3. CASE m = "syncAll" BY <1>1, <1>3, SaveRecords
<1>4. CASE m = "removeServer" BY <1>1, <1>4, SaveRecords
<1>5. CASE m = "removeServerCard" BY <1>1, <1>5, SaveRecords
<1>6. CASE m = "reenable" BY <1>1, <1>6, SaveRecords
<1>7. CASE m = "addServer" BY <1>1, <1>7, SaveRecords
<1>8. CASE m = "editServer" BY <1>1, <1>8, SaveRecords
<1>9. CASE m = "bindDomain" BY <1>1, <1>9, SaveRecords
<1>10. CASE m = "apiUrl" BY <1>1, <1>10, SaveRecords
<1> QED BY <1>2, <1>3, <1>4, <1>5, <1>6, <1>7, <1>8, <1>9, <1>10 DEF ServerSaves

LEMMA UserSavesPlaces ==
  ASSUME NEW m \in DOMAIN UserSaves
  PROVE  \/ m = "promote" /\ SaveOf[m].on = {"user"} /\ SaveOf[m].lands = ""
         \/ m = "unlink" /\ SaveOf[m].on = {"user"} /\ SaveOf[m].lands = ""
         \/ m = "resetUsage" /\ SaveOf[m].on = {"user"} /\ SaveOf[m].lands = ""
         \/ m = "removeUser" /\ SaveOf[m].on = {"user"} /\ SaveOf[m].lands = "users"
         \/ m = "removeUserRow" /\ SaveOf[m].on = {"users"} /\ SaveOf[m].lands = ""
         \/ m = "editUser" /\ SaveOf[m].on = {"user"} /\ SaveOf[m].lands = ""
         \/ m = "newUser" /\ SaveOf[m].on = {"users"} /\ SaveOf[m].lands = ""
         \/ m = "changeKey" /\ SaveOf[m].on = {"user"} /\ SaveOf[m].lands = ""
         \/ m = "resetShare" /\ SaveOf[m].on = {"user"} /\ SaveOf[m].lands = ""
<1>1. /\ Promote.on = {"user"} /\ Promote.lands = ""
      /\ Unlink.on = {"user"} /\ Unlink.lands = ""
      /\ ResetUsage.on = {"user"} /\ ResetUsage.lands = ""
      /\ RemoveUserFromPage.on = {"user"} /\ RemoveUserFromPage.lands = "users"
      /\ RemoveUserFromTable.on = {"users"} /\ RemoveUserFromTable.lands = ""
      /\ EditUserDialog.on = {"user"} /\ EditUserDialog.lands = ""
      /\ NewUserDialog.on = {"users"} /\ NewUserDialog.lands = ""
      /\ ChangeKeyDialog.on = {"user"} /\ ChangeKeyDialog.lands = ""
      /\ ResetUserShare.on = {"user"} /\ ResetUserShare.lands = ""
  BY DEF SaveOn, Promote, Unlink, ResetUsage, RemoveUserFromPage, RemoveUserFromTable, RemoveUserFromPage, EditUserDialog, NewUserDialog, ChangeKeyDialog, ResetUserShare
<1>2. CASE m = "promote" BY <1>1, <1>2, SaveRecords
<1>3. CASE m = "unlink" BY <1>1, <1>3, SaveRecords
<1>4. CASE m = "resetUsage" BY <1>1, <1>4, SaveRecords
<1>5. CASE m = "removeUser" BY <1>1, <1>5, SaveRecords
<1>6. CASE m = "removeUserRow" BY <1>1, <1>6, SaveRecords
<1>7. CASE m = "editUser" BY <1>1, <1>7, SaveRecords
<1>8. CASE m = "newUser" BY <1>1, <1>8, SaveRecords
<1>9. CASE m = "changeKey" BY <1>1, <1>9, SaveRecords
<1>10. CASE m = "resetShare" BY <1>1, <1>10, SaveRecords
<1> QED BY <1>2, <1>3, <1>4, <1>5, <1>6, <1>7, <1>8, <1>9, <1>10 DEF UserSaves

LEMMA AdminSavesPlaces ==
  ASSUME NEW m \in DOMAIN AdminSaves
  PROVE  \/ m = "addAdmin" /\ SaveOf[m].on = {"users"} /\ SaveOf[m].lands = ""
         \/ m = "adminRow" /\ SaveOf[m].on = {"users"} /\ SaveOf[m].lands = ""
         \/ m = "approve" /\ SaveOf[m].on = {"orders"} /\ SaveOf[m].lands = ""
         \/ m = "rejectOrDelete" /\ SaveOf[m].on = {"orders"} /\ SaveOf[m].lands = ""
         \/ m = "settings" /\ SaveOf[m].on = {"settings"} /\ SaveOf[m].lands = ""
<1>1. /\ NewAdminDialog.on = {"users"} /\ NewAdminDialog.lands = ""
      /\ AdminTableSave.on = {"users"} /\ AdminTableSave.lands = ""
      /\ ApproveOrder.on = {"orders"} /\ ApproveOrder.lands = ""
      /\ DecideOrder.on = {"orders"} /\ DecideOrder.lands = ""
      /\ SettingsSave.on = {"settings"} /\ SettingsSave.lands = ""
  BY DEF SaveOn, NewAdminDialog, AdminTableSave, ApproveOrder, DecideOrder, SettingsSave
<1>2. CASE m = "addAdmin" BY <1>1, <1>2, SaveRecords
<1>3. CASE m = "adminRow" BY <1>1, <1>3, SaveRecords
<1>4. CASE m = "approve" BY <1>1, <1>4, SaveRecords
<1>5. CASE m = "rejectOrDelete" BY <1>1, <1>5, SaveRecords
<1>6. CASE m = "settings" BY <1>1, <1>6, SaveRecords
<1> QED BY <1>2, <1>3, <1>4, <1>5, <1>6 DEF AdminSaves

LEMMA WhereOffered ==
  ASSUME NEW m \in Saves, NEW p \in SaveOf[m].on
  PROVE  \/ p = "key" /\ m \in {"togglePaid", "syncFromKey", "removeKey", "editKey"}
         \/ p = "server" /\ m \in {"removeKeyRow", "newKey", "overallLimit", "editKey", "syncServer", "removeServer", "reenable", "editServer", "bindDomain", "apiUrl"}
         \/ p = "servers" /\ m \in {"syncAll", "removeServerCard", "reenable", "addServer"}
         \/ p = "users" /\ m \in {"syncAll", "removeUserRow", "newUser", "addAdmin", "adminRow"}
         \/ p = "user" /\ m \in {"editKey", "promote", "unlink", "resetUsage", "removeUser", "editUser", "changeKey", "resetShare"}
         \/ p = "orders" /\ m \in {"approve", "rejectOrDelete"}
         \/ p = "settings" /\ m \in {"settings"}
<1>1. Saves = DOMAIN KeySaves \cup DOMAIN ServerSaves \cup DOMAIN UserSaves \cup DOMAIN AdminSaves
  BY DEF Saves, SaveOf, Both
<1>2. CASE m \in DOMAIN KeySaves BY <1>2, KeySavesPlaces
<1>3. CASE m \in DOMAIN ServerSaves BY <1>3, ServerSavesPlaces
<1>4. CASE m \in DOMAIN UserSaves BY <1>4, UserSavesPlaces
<1>5. CASE m \in DOMAIN AdminSaves BY <1>5, AdminSavesPlaces
<1> QED BY <1>1, <1>2, <1>3, <1>4, <1>5

LEMMA WhereLanded ==
  ASSUME NEW m \in Saves, SaveOf[m].lands # ""
  PROVE  \/ m = "removeKey" /\ SaveOf[m].lands = "server"
         \/ m = "removeServer" /\ SaveOf[m].lands = "servers"
         \/ m = "removeUser" /\ SaveOf[m].lands = "users"
<1>1. Saves = DOMAIN KeySaves \cup DOMAIN ServerSaves \cup DOMAIN UserSaves \cup DOMAIN AdminSaves
  BY DEF Saves, SaveOf, Both
<1>2. CASE m \in DOMAIN KeySaves BY <1>2, KeySavesPlaces
<1>3. CASE m \in DOMAIN ServerSaves BY <1>3, ServerSavesPlaces
<1>4. CASE m \in DOMAIN UserSaves BY <1>4, UserSavesPlaces
<1>5. CASE m \in DOMAIN AdminSaves BY <1>5, AdminSavesPlaces
<1> QED BY <1>1, <1>2, <1>3, <1>4, <1>5

LEMMA LaggingSaves ==
  ASSUME NEW m \in Saves
  PROVE  /\ "key" \in Lagging(m) =>
              m \in {"removeServer", "removeServerCard", "editUser", "approve"}
         /\ "users" \in Lagging(m) =>
              m \in {"editServer", "removeKeyRow", "removeServer",
                     "removeServerCard", "approve"}
         /\ "user" \in Lagging(m) =>
              m \in {"editServer", "removeKeyRow", "removeServer",
                     "removeServerCard", "approve"}
         /\ "unassigned" \in Lagging(m) =>
              m \in {"addServer", "newKey", "removeServer", "removeServerCard", "approve"}
         /\ "serverList" \in Lagging(m) => m = "approve"
         /\ "server" \in Lagging(m) =>
              m \in {"unlink", "removeUser", "removeUserRow", "editUser", "approve"}
         /\ "orders" \in Lagging(m) => m = "editServer"
         /\ Lagging(m) \cap {"me", "admins", "activity", "keyRenewals", "keyDaily",
                             "share", "settings"} = {}
BY DEF Lagging, Lags

\* The dialogs over a page are those whose save the page offers.
LEMMA DialogsOver ==
  ASSUME NEW p \in Pages, NEW d \in DOMAIN DialogParts, p \in SaveOf[d].on
  PROVE  \/ p = "users" /\ d = "newUser"
         \/ p = "user" /\ d \in {"changeKey", "resetShare"}
<1>1. d \in Saves /\ d \in {"newUser", "changeKey", "resetShare"}
  BY TheDialogs, TheSaves
<1>2. CASE d = "newUser" BY <1>1, <1>2, WhereOffered
<1>3. CASE d = "changeKey" BY <1>1, <1>3, WhereOffered
<1>4. CASE d = "resetShare" BY <1>1, <1>4, WhereOffered
<1> QED BY <1>1, <1>2, <1>3, <1>4

LEMMA UserPageLags ==
  ASSUME NEW m \in {"unlink", "removeUser", "editUser"}
  PROVE  SaveOf[m].writes \cap {"host", "metrics", "srv"} = {}
<1>1. /\ Unlink.writes = {"holder", "primary", "activity"}
      /\ RemoveUserFromPage.writes = {"users", "holder", "primary"}
      /\ EditUserDialog.writes = {"user", "activity"}
  BY DEF Unlink, RemoveUserFromPage, EditUserDialog, SaveOn
<1> QED BY <1>1, SaveRecords

\* No page that offers a save displays what the save leaves unmarked.
LEMMA OfferedIsMarked ==
  ASSUME NEW m \in Saves, NEW p \in SaveOf[m].on,
         NEW d \in {"none"} \cup DOMAIN DialogParts, d # "none" => p \in SaveOf[d].on,
         NEW q, NEW f \in SaveOf[m].writes, <<q, f>> \in Shown[<<p, d>>]
  PROVE  q \in Invalidated[m] \cup Filled[m]
<1>1. p \in Pages BY WhereOffered, ThePages
<1>2. SUFFICES q \notin Lagging(m) BY <1>1, UnmarkedLags
<1>3. CASE <<q, f>> \in AppSidebar BY <1>3, LaggingSaves DEF AppSidebar, Of
<1>4. CASE d # "none" /\ <<q, f>> \in DialogParts[d]
  <2>1. p \in {"users", "user"} BY <1>1, <1>4, DialogsOver
  <2>2. q \in {"unassigned", "serverList", "share"} BY <1>4, DialogsShow
  <2>3. m \in {"syncAll", "removeUserRow", "newUser", "addAdmin", "adminRow",
                "editKey", "promote", "unlink", "resetUsage", "removeUser",
                "editUser", "changeKey", "resetShare"}
    BY <2>1, WhereOffered
  <2> QED BY <2>2, <2>3, LaggingSaves
<1>5. CASE <<q, f>> \in PageParts[p]
  <2>1. CASE p = "key"
    <3>1. q \in {"key", "keyRenewals", "keyDaily", "server"} BY <1>5, <2>1, KeyPageShows DEF PageParts
    <3>2. m \in {"togglePaid", "syncFromKey", "removeKey", "editKey"}
      BY <2>1, WhereOffered
    <3> QED BY <3>1, <3>2, LaggingSaves
  <2>2. CASE p = "server"
    <3>1. q \in {"server"} BY <1>5, <2>2, ServerPageShows DEF PageParts
    <3>2. m \in {"removeKeyRow", "newKey", "overallLimit", "editKey", "syncServer",
                  "removeServer", "reenable", "editServer", "bindDomain", "apiUrl"}
      BY <2>2, WhereOffered
    <3> QED BY <3>1, <3>2, LaggingSaves
  <2>3. CASE p = "servers"
    <3>1. q \in {"serverList"} BY <1>5, <2>3, ServersPageShows DEF PageParts
    <3>2. m \in {"syncAll", "removeServerCard", "reenable", "addServer"}
      BY <2>3, WhereOffered
    <3> QED BY <3>1, <3>2, LaggingSaves
  <2>4. CASE p = "users"
    <3>1. q \in {"admins", "users", "serverList"} BY <1>5, <2>4, UsersPageShows DEF PageParts
    <3>2. m \in {"syncAll", "removeUserRow", "newUser", "addAdmin", "adminRow"}
      BY <2>4, WhereOffered
    <3> QED BY <3>1, <3>2, LaggingSaves
  <2>5. CASE p = "user"
    <3>1. \/ q \in {"user", "activity", "keyRenewals", "keyDaily"}
          \/ q = "server" /\ f \in {"host", "metrics", "srv"}
      BY <1>5, <2>5, UserPageShows DEF PageParts
    <3>2. m \in {"editKey", "promote", "unlink", "resetUsage", "removeUser",
                  "editUser", "changeKey", "resetShare"}
      BY <2>5, WhereOffered
    <3>3. m \in {"unlink", "removeUser", "editUser"} => ~(q = "server" /\ f \in {"host", "metrics", "srv"})
      BY UserPageLags
    <3> QED BY <3>1, <3>2, <3>3, LaggingSaves
  <2>6. CASE p = "orders"
    BY <1>5, <2>6, LaggingSaves, WhereOffered DEF PageParts, OrdersPage, Of
  <2>7. CASE p = "settings"
    BY <1>5, <2>7, LaggingSaves DEF PageParts, SettingsPage, Of
  <2> QED BY <2>1, <2>2, <2>3, <2>4, <2>5, <2>6, <2>7, WhereOffered
<1> QED BY <1>1, <1>3, <1>4, <1>5, ScreenParts

\* Nor does the page a removal lands on.
LEMMA LandingIsMarked ==
  ASSUME NEW m \in Saves, SaveOf[m].lands # "",
         NEW q, NEW f \in SaveOf[m].writes, <<q, f>> \in Shown[<<SaveOf[m].lands, "none">>]
  PROVE  q \in Invalidated[m]
<1> DEFINE p == SaveOf[m].lands
<1>1. \/ m = "removeKey" /\ p = "server"
      \/ m = "removeServer" /\ p = "servers"
      \/ m = "removeUser" /\ p = "users"
  BY WhereLanded
<1>2. p \in Pages BY <1>1, ThePages
<1>3. Filled[m] = {} BY <1>1, SettingsAreFilled DEF Filled
<1>4. SUFFICES q \notin Lagging(m) BY <1>2, <1>3, UnmarkedLags
<1>5. CASE <<q, f>> \in AppSidebar BY <1>5, LaggingSaves DEF AppSidebar, Of
<1>6. CASE <<q, f>> \in PageParts[p]
  <2>1. CASE p = "server" BY <1>1, <1>6, <2>1, ServerPageShows, LaggingSaves DEF PageParts
  <2>2. CASE p = "servers" BY <1>1, <1>6, <2>2, ServersPageShows, LaggingSaves DEF PageParts
  <2>3. CASE p = "users" BY <1>1, <1>6, <2>3, UsersPageShows, LaggingSaves DEF PageParts
  <2> QED BY <1>1, <2>1, <2>2, <2>3
<1> QED BY <1>2, <1>5, <1>6, ScreenParts

-----------------------------------------------------------------------------
(* The invariant *)

\* Where the admin can be: a dialog is over a page that offers its save, and
\* at the sign-in pages nothing is awaited.
ScreenOK ==
  /\ dialog # "none" => page \in SaveOf[dialog].on
  /\ page \in SignInPages => dialog = "none" /\ pending = NoSave /\ made = NotMade
  /\ page \notin SignInPages => page \in Pages

\* Where the last save was made, or has landed, the admin still is.
MadeOK ==
  /\ pending # NoSave => made.what = pending.what
  /\ made.where = "here" /\ made.what # "none" => page \in SaveOf[made.what].on
  /\ made.where = "landed" => made.what \in Saves
                              /\ page = SaveOf[made.what].lands /\ dialog = "none"

\* A save is missed for a fact it wrote and the query reads, and an answer
\* under way misses it only when it was overtaken.
MissesOK ==
  /\ ~copy.held => copy.missed = {}
  /\ \A x \in copy.missed \cup fetch.missed :
       x[1] # "other" => /\ x[2] \in Saves
                         /\ x[3] \in SaveOf[x[2]].writes
                         /\ x[3] \in QueryOf[followed].reads
  /\ \A x \in fetch.missed : x[1] # "own"

Settled(m) == ~(pending.done /\ pending.what = m)

\* What a save that is over left unmarked, it does not mark.
OwnInv ==
  \A x \in copy.missed :
    x[1] = "own" /\ Settled(x[2]) /\ ~copy.invalid =>
      followed \notin Invalidated[x[2]] \cup Filled[x[2]]

\* An answer the last save overtook is dropped or marked on the page it was
\* made on.
CrossedInv ==
  made.where = "here" /\ made.what \notin DOMAIN SetsData /\ pending = NoSave =>
    \A f \in Facts : OnScreen(f) =>
      /\ ~copy.invalid => <<"crossed", made.what, f>> \notin copy.missed
      /\ <<"crossed", made.what, f>> \notin fetch.missed

ConsoleInv == TypeOK /\ ScreenOK /\ MadeOK /\ MissesOK /\ OwnInv /\ CrossedInv

-----------------------------------------------------------------------------
(* What the machine needs of the tables *)

LEMMA ScreenNames ==
  /\ Pages \cap SignInPages = {}
  /\ "overview" \in Pages
  /\ "" \notin Pages
  /\ "none" \notin Saves
  /\ DOMAIN DialogParts \subseteq Saves
BY ThePages, TheSaves, TheDialogs DEF SignInPages

LEMMA SavesOnPages ==
  ASSUME NEW m \in Saves
  PROVE  /\ SaveOf[m].on \subseteq Pages
         /\ SaveOf[m].lands # "" => SaveOf[m].lands \in Pages
<1>1. SaveOf[m].on \subseteq Pages BY WhereOffered, ThePages
<1>2. SaveOf[m].lands # "" => SaveOf[m].lands \in Pages BY WhereLanded, ThePages
<1> QED BY <1>1, <1>2

LEMMA OnlySettingsFill ==
  ASSUME NEW m \in Saves, m \notin DOMAIN SetsData
  PROVE  Filled[m] = {}
BY DEF Filled

LEMMA MissingAreMisses ==
  ASSUME TypeOK, NEW why \in Reasons, NEW by \in {"none"} \cup Saves, NEW facts
  PROVE  Missing(why, by, facts) \subseteq Misses
<1>1. QueryOf[followed].reads \subseteq Facts BY ReadsAreFacts DEF TypeOK
<1> QED BY <1>1 DEF Missing, Misses

-----------------------------------------------------------------------------
(* Steps that add nothing to what is missed *)

\* The copy is kept, dropped or read anew; the fetch is kept, over or sent.
Quiet ==
  /\ followed' = followed
  /\ copy' \in {copy, NoCopy, Read({}), Read(fetch.missed)}
  /\ fetch' \in {fetch, NoFetch, Sent}

LEMMA QuietTypes ==
  ASSUME TypeOK, Quiet
  PROVE  /\ followed' \in Queries
         /\ copy' \in [held : BOOLEAN, invalid : BOOLEAN, missed : SUBSET Misses]
         /\ fetch' \in [on : BOOLEAN, missed : SUBSET Misses]
<1>1. fetch.missed \subseteq Misses BY DEF TypeOK
<1>2. /\ {} \in SUBSET Misses
      /\ fetch.missed \in SUBSET Misses
  BY <1>1
<1>3. /\ copy \in [held : BOOLEAN, invalid : BOOLEAN, missed : SUBSET Misses]
      /\ fetch \in [on : BOOLEAN, missed : SUBSET Misses]
      /\ followed \in Queries
  BY DEF TypeOK
<1>4. /\ NoCopy \in [held : BOOLEAN, invalid : BOOLEAN, missed : SUBSET Misses]
      /\ Read({}) \in [held : BOOLEAN, invalid : BOOLEAN, missed : SUBSET Misses]
      /\ Read(fetch.missed) \in [held : BOOLEAN, invalid : BOOLEAN, missed : SUBSET Misses]
  BY <1>2 DEF NoCopy, Read
<1>5. /\ NoFetch \in [on : BOOLEAN, missed : SUBSET Misses]
      /\ Sent \in [on : BOOLEAN, missed : SUBSET Misses]
  BY <1>2 DEF NoFetch, Sent
<1> QED BY <1>3, <1>4, <1>5 DEF Quiet

LEMMA QuietMisses ==
  ASSUME MissesOK, Quiet
  PROVE  MissesOK'
BY DEF MissesOK, Quiet, NoCopy, Read, NoFetch, Sent

LEMMA QuietOwn ==
  ASSUME MissesOK, OwnInv, Quiet, pending' = pending \/ copy' = NoCopy
  PROVE  OwnInv'
<1>1. CASE copy' = copy /\ pending' = pending
  BY <1>1 DEF OwnInv, Settled, Quiet
<1>2. CASE copy' \in {NoCopy, Read({})}
  BY <1>2 DEF OwnInv, NoCopy, Read
<1>3. CASE copy' = Read(fetch.missed)
  BY <1>3 DEF OwnInv, MissesOK, Read
<1> QED BY <1>1, <1>2, <1>3 DEF Quiet

\* On the same screen, or with the dialog closed over it.
LEMMA QuietCrossed ==
  ASSUME TypeOK, CrossedInv, Quiet,
         page' = page, dialog' \in {dialog, "none"}, made' = made, pending' = pending
  PROVE  CrossedInv'
<1> SUFFICES ASSUME made.where = "here", made.what \notin DOMAIN SetsData, pending = NoSave,
                    NEW f \in Facts, OnScreen(f)'
             PROVE  /\ ~copy'.invalid => <<"crossed", made.what, f>> \notin copy'.missed
                    /\ <<"crossed", made.what, f>> \notin fetch'.missed
  BY DEF CrossedInv
<1>1. OnScreen(f)
  BY DialogAddsToPage DEF OnScreen, Quiet, TypeOK
<1>2. /\ ~copy.invalid => <<"crossed", made.what, f>> \notin copy.missed
      /\ <<"crossed", made.what, f>> \notin fetch.missed
  BY <1>1 DEF CrossedInv
<1> QED BY <1>2 DEF Quiet, NoCopy, Read, NoFetch, Sent

\* There is nothing to keep of a save not answered, of none, or of one that
\* was made elsewhere.
LEMMA CrossedElsewhere ==
  ASSUME made'.where # "here" \/ pending' # NoSave
  PROVE  CrossedInv'
BY DEF CrossedInv, NoSave

LEMMA CrossedByNone ==
  ASSUME MissesOK', made'.what = "none"
  PROVE  CrossedInv'
<1>1. ASSUME NEW f, <<"crossed", "none", f>> \in copy'.missed \cup fetch'.missed
      PROVE  FALSE
  BY <1>1, ScreenNames DEF MissesOK
<1> QED BY <1>1 DEF CrossedInv

LEMMA MountedIsQuiet ==
  ASSUME NEW p, NEW d, NEW aged, NEW held
  PROVE  Mounted(p, d, aged, held) \in {fetch, Sent}
BY DEF Mounted

-----------------------------------------------------------------------------
(* The admin's moves *)

LEMMA InitHolds == Init => ConsoleInv
<1> SUFFICES ASSUME Init PROVE ConsoleInv OBVIOUS
<1>1. page \in Pages BY ScreenNames DEF Init, Concerned
<1>2. TypeOK
  BY <1>1 DEF Init, TypeOK, NoCopy, Sent, NoFetch, NoSave, NotMade
<1>3. ScreenOK BY <1>1, ScreenNames DEF Init, ScreenOK
<1>4. MadeOK BY DEF Init, MadeOK, NotMade
<1>5. MissesOK /\ OwnInv
  BY DEF Init, MissesOK, OwnInv, NoCopy, Sent, NoFetch
<1>6. CrossedInv BY DEF Init, CrossedInv, NoCopy, Sent, NoFetch
<1> QED BY <1>2, <1>3, <1>4, <1>5, <1>6 DEF ConsoleInv

LEMMA VisitKeeps ==
  ASSUME ConsoleInv, NEW p \in Pages, NEW aged \in BOOLEAN, Visit(p, aged)
  PROVE  ConsoleInv'
<1> USE DEF ConsoleInv
<1>1. Quiet BY MountedIsQuiet DEF Visit, Quiet
<1>2. page' = p /\ dialog' = "none" /\ pending' = pending /\ made' = Elsewhere
  BY DEF Visit
<1>3. made'.what = made.what /\ made'.where = "elsewhere"
  BY <1>2 DEF Elsewhere, TypeOK
<1>4. TypeOK' BY <1>1, <1>2, QuietTypes DEF TypeOK, Visit, Elsewhere
<1>5. ScreenOK' BY <1>2, ScreenNames DEF ScreenOK
<1>6. MadeOK' BY <1>2, <1>3 DEF MadeOK
<1>7. MissesOK' /\ OwnInv' BY <1>1, <1>2, QuietMisses, QuietOwn
<1>8. CrossedInv' BY <1>3, CrossedElsewhere
<1> QED BY <1>4, <1>5, <1>6, <1>7, <1>8

LEMMA OpenDialogKeeps ==
  ASSUME ConsoleInv, NEW d \in DOMAIN DialogParts, NEW aged \in BOOLEAN,
         OpenDialog(d, aged)
  PROVE  ConsoleInv'
<1> USE DEF ConsoleInv
<1>1. Quiet BY MountedIsQuiet DEF OpenDialog, Quiet
<1>2. /\ page' = page /\ page \in SaveOf[d].on /\ dialog' = d
      /\ pending' = pending /\ made' = Elsewhere
  BY DEF OpenDialog
<1>3. made'.what = made.what /\ made'.where = "elsewhere"
  BY <1>2 DEF Elsewhere, TypeOK
<1>4. page \in Pages BY <1>2, SavesOnPages, ScreenNames
<1>5. TypeOK' BY <1>1, <1>2, QuietTypes DEF TypeOK, OpenDialog, Elsewhere
<1>6. ScreenOK' BY <1>2, <1>4, ScreenNames DEF ScreenOK
<1>7. MadeOK' BY <1>2, <1>3 DEF MadeOK
<1>8. MissesOK' /\ OwnInv' BY <1>1, <1>2, QuietMisses, QuietOwn
<1>9. CrossedInv' BY <1>3, CrossedElsewhere
<1> QED BY <1>5, <1>6, <1>7, <1>8, <1>9

\* Steps on the same screen, or that close the dialog over it.
LEMMA StayingKeeps ==
  ASSUME ConsoleInv, Quiet, page' = page, dialog' \in {dialog, "none"},
         present' \in BOOLEAN, session' \in {"open", "ended"},
         pending' = pending, made' = made
  PROVE  ConsoleInv'
<1> USE DEF ConsoleInv
<1>1. TypeOK' BY QuietTypes DEF TypeOK
<1>2. ScreenOK' BY DEF ScreenOK
<1>3. MadeOK' BY DEF MadeOK
<1>4. MissesOK' /\ OwnInv' BY QuietMisses, QuietOwn
<1>5. CrossedInv' BY QuietCrossed
<1> QED BY <1>1, <1>2, <1>3, <1>4, <1>5

LEMMA OnTheSamePageKeeps ==
  ASSUME ConsoleInv,
         \/ CloseDialog \/ Collect \/ Answer \/ LoseFetch \/ Poll \/ GoIdle
         \/ (\E aged \in BOOLEAN : MarkActive(aged)) \/ EndSession
  PROVE  ConsoleInv'
<1>1. present \in BOOLEAN /\ session \in {"open", "ended"} BY DEF ConsoleInv, TypeOK
<1>2. CASE CloseDialog BY <1>1, <1>2, StayingKeeps DEF CloseDialog, Quiet
<1>3. CASE Collect BY <1>1, <1>3, StayingKeeps DEF Collect, Quiet
<1>4. CASE Answer BY <1>1, <1>4, StayingKeeps DEF Answer, Quiet
<1>5. CASE LoseFetch BY <1>1, <1>5, StayingKeeps DEF LoseFetch, Quiet
<1>6. CASE Poll BY <1>1, <1>6, StayingKeeps DEF Poll, Quiet
<1>7. CASE GoIdle BY <1>1, <1>7, StayingKeeps DEF GoIdle, Quiet
<1>8. CASE \E aged \in BOOLEAN : MarkActive(aged)
  BY <1>1, <1>8, StayingKeeps DEF MarkActive, Quiet
<1>9. CASE EndSession BY <1>1, <1>9, StayingKeeps DEF EndSession, Quiet
<1> QED BY <1>2, <1>3, <1>4, <1>5, <1>6, <1>7, <1>8, <1>9

\* The sign-in pages, and the way back from them.
LEMMA SignedOutKeeps ==
  ASSUME ConsoleInv, Unauthorized \/ Logout
  PROVE  ConsoleInv'
<1> USE DEF ConsoleInv
<1>1. Load("login") /\ followed' = followed /\ present' = present
      /\ session' \in {"open", "ended"}
  BY DEF Unauthorized, Logout, TypeOK
<1>2. /\ page' = "login" /\ dialog' = "none" /\ copy' = NoCopy
      /\ pending' = NoSave /\ made' = NotMade
  BY <1>1 DEF Load
<1>3. Quiet BY <1>1 DEF Load, Quiet
<1>4. TypeOK'
  BY <1>1, <1>2, <1>3, QuietTypes DEF TypeOK, SignInPages, NoSave, NotMade
<1>5. ScreenOK' BY <1>2 DEF ScreenOK, SignInPages
<1>6. MadeOK' BY <1>2 DEF MadeOK, NotMade
<1>7. MissesOK' /\ OwnInv' BY <1>2, <1>3, QuietMisses, QuietOwn
<1>8. CrossedInv' BY <1>2, <1>7, CrossedByNone DEF NotMade
<1> QED BY <1>4, <1>5, <1>6, <1>7, <1>8

LEMMA SigningInKeeps ==
  ASSUME ConsoleInv, RequestOtp \/ ChangeEmail \/ VerifyOtp
  PROVE  ConsoleInv'
<1> USE DEF ConsoleInv
<1>1. page \in SignInPages /\ UNCHANGED <<followed, dialog, present, pending, made>>
  BY DEF RequestOtp, ChangeEmail, VerifyOtp, SignInPages
<1>2. dialog = "none" /\ pending = NoSave /\ made = NotMade
  BY <1>1 DEF ScreenOK
<1>3. page' \in SignInPages \cup Pages /\ session' \in {"open", "ended"}
  BY ScreenNames DEF RequestOtp, ChangeEmail, VerifyOtp, SignInPages, TypeOK
<1>4. Quiet
  BY <1>1, MountedIsQuiet DEF RequestOtp, ChangeEmail, VerifyOtp, Quiet
<1>5. TypeOK' BY <1>1, <1>3, <1>4, QuietTypes DEF TypeOK
<1>6. ScreenOK' BY <1>1, <1>2, <1>3 DEF ScreenOK
<1>7. MadeOK' BY <1>1, <1>2 DEF MadeOK, NotMade
<1>8. MissesOK' /\ OwnInv' BY <1>1, <1>4, QuietMisses, QuietOwn
<1>9. CrossedInv' BY <1>1, <1>2, <1>8, CrossedByNone DEF NotMade
<1> QED BY <1>5, <1>6, <1>7, <1>8, <1>9

-----------------------------------------------------------------------------
(* Saves *)

LEMMA SubmitKeeps ==
  ASSUME ConsoleInv, NEW m \in Saves, Submit(m)
  PROVE  ConsoleInv'
<1> USE DEF ConsoleInv
<1>1. /\ pending' = [what |-> m, done |-> FALSE] /\ made' = [what |-> m, where |-> "here"]
      /\ UNCHANGED <<followed, page, dialog, present, session, copy, fetch>>
      /\ page \in SaveOf[m].on /\ pending = NoSave
  BY DEF Submit
<1>2. page \in Pages /\ page \notin SignInPages BY <1>1, SavesOnPages, ScreenNames
<1>3. pending' # NoSave BY <1>1, ScreenNames DEF NoSave
<1>4. TypeOK' BY <1>1 DEF TypeOK
<1>5. ScreenOK' BY <1>1, <1>2 DEF ScreenOK
<1>6. MadeOK' BY <1>1 DEF MadeOK
<1>7. MissesOK' BY <1>1 DEF MissesOK
<1>8. OwnInv' BY <1>1 DEF OwnInv, Settled, NoSave
<1>9. CrossedInv' BY <1>3, CrossedElsewhere
<1> QED BY <1>4, <1>5, <1>6, <1>7, <1>8, <1>9

\* A save in flight is a save.
LEMMA PendingIsSave ==
  ASSUME TypeOK, pending # NoSave
  PROVE  pending.what \in Saves /\ pending.done \in BOOLEAN
BY DEF TypeOK

LEMMA ApplyKeeps ==
  ASSUME ConsoleInv, NEW given \in BOOLEAN, Apply(given)
  PROVE  ConsoleInv'
<1> USE DEF ConsoleInv
<1> DEFINE m == pending.what
           writes == SaveOf[m].writes
           own == Missing("own", m, writes)
           crossed == Missing("crossed", m, writes)
<1>1. /\ pending # NoSave /\ ~pending.done /\ pending' = [pending EXCEPT !.done = TRUE]
      /\ UNCHANGED <<followed, page, dialog, present, session, made>>
      /\ copy' = IF copy.held THEN [copy EXCEPT !.missed = @ \cup own] ELSE copy
      /\ fetch' = IF fetch.on /\ given
                  THEN [fetch EXCEPT !.missed = @ \cup crossed] ELSE fetch
  BY DEF Apply
<1>2. m \in Saves /\ pending \in [what : Saves, done : BOOLEAN]
  BY <1>1, PendingIsSave DEF TypeOK
<1>3. pending' = [what |-> m, done |-> TRUE] BY <1>1, <1>2
<1>4. pending' # NoSave /\ pending'.what = m /\ pending'.done BY <1>3 DEF NoSave
<1>5. own \subseteq Misses /\ crossed \subseteq Misses
  BY <1>2, MissingAreMisses DEF Reasons
<1>6. /\ \A x \in own : x[1] = "own" /\ x[2] = m /\ x[3] \in writes \cap QueryOf[followed].reads
      /\ \A x \in crossed : x[1] = "crossed" /\ x[2] = m
                            /\ x[3] \in writes \cap QueryOf[followed].reads
  BY DEF Missing
<1> HIDE DEF own, crossed
<1>7. /\ copy'.held = copy.held /\ copy'.invalid = copy.invalid
      /\ copy'.missed \in {copy.missed, copy.missed \cup own}
      /\ ~copy.held => copy'.missed = copy.missed
      /\ fetch'.missed \in {fetch.missed, fetch.missed \cup crossed}
  BY <1>1 DEF TypeOK
<1>8. TypeOK' BY <1>1, <1>3, <1>2, <1>5 DEF TypeOK
<1>9. ScreenOK' BY <1>1 DEF ScreenOK
<1>10. MadeOK' BY <1>1, <1>4 DEF MadeOK
<1>11. MissesOK'
  <2>1. ~copy'.held => copy'.missed = {} BY <1>7 DEF MissesOK
  <2>2. ASSUME NEW x \in copy'.missed \cup fetch'.missed, x[1] # "other"
        PROVE  x[2] \in Saves /\ x[3] \in SaveOf[x[2]].writes /\ x[3] \in QueryOf[followed].reads
    BY <2>2, <1>2, <1>6, <1>7 DEF MissesOK
  <2>3. \A x \in fetch'.missed : x[1] # "own" BY <1>6, <1>7 DEF MissesOK
  <2> QED BY <1>1, <2>1, <2>2, <2>3 DEF MissesOK
<1>12. OwnInv'
  <2> SUFFICES ASSUME NEW x \in copy'.missed, x[1] = "own", Settled(x[2])', ~copy'.invalid
               PROVE  followed \notin Invalidated[x[2]] \cup Filled[x[2]]
    BY <1>1 DEF OwnInv
  <2>1. x[2] # m BY <1>4 DEF Settled
  <2>2. x \in copy.missed BY <1>6, <1>7, <2>1
  <2>3. Settled(x[2]) BY <2>1 DEF Settled
  <2> QED BY <1>7, <2>2, <2>3 DEF OwnInv
<1>13. CrossedInv' BY <1>4, CrossedElsewhere
<1> QED BY <1>8, <1>9, <1>10, <1>11, <1>12, <1>13

LEMMA DisownedMisses ==
  ASSUME NEW missed \in SUBSET Misses, NEW m
  PROVE  /\ Disowned(missed, m) \subseteq Misses
         /\ \A x \in Disowned(missed, m) : x[1] # "other" => x \in missed /\ x[2] # m
         /\ missed = {} => Disowned(missed, m) = {}
<1>1. ASSUME NEW x \in missed
      PROVE  <<"other", "none", x[3]>> \in Misses /\ <<"other", "none", x[3]>>[1] = "other"
  BY DEF Misses, Reasons
<1> QED BY <1>1 DEF Disowned

LEMMA LoseSaveKeeps ==
  ASSUME ConsoleInv, LoseSave
  PROVE  ConsoleInv'
<1> USE DEF ConsoleInv
<1> DEFINE m == pending.what
<1>1. /\ pending' = NoSave /\ made' = NotMade
      /\ UNCHANGED <<followed, page, dialog, present, session>>
      /\ copy' = [copy EXCEPT !.missed = Disowned(@, m)]
      /\ fetch' = [fetch EXCEPT !.missed = Disowned(@, m)]
  BY DEF LoseSave
<1>2. copy.missed \in SUBSET Misses /\ fetch.missed \in SUBSET Misses BY DEF TypeOK
<1>3. /\ copy'.held = copy.held /\ copy'.invalid = copy.invalid
      /\ copy'.missed = Disowned(copy.missed, m)
      /\ fetch'.missed = Disowned(fetch.missed, m)
  BY <1>1 DEF TypeOK
<1>4. /\ \A x \in copy'.missed : x[1] # "other" => x \in copy.missed /\ x[2] # m
      /\ \A x \in fetch'.missed : x[1] # "other" => x \in fetch.missed /\ x[2] # m
      /\ copy.missed = {} => copy'.missed = {}
  BY <1>2, <1>3, DisownedMisses
<1>5. TypeOK'
  <2>1. Disowned(copy.missed, m) \subseteq Misses /\ Disowned(fetch.missed, m) \subseteq Misses
    BY <1>2, DisownedMisses
  <2> QED BY <1>1, <2>1 DEF TypeOK, NoSave, NotMade
<1>6. ScreenOK' BY <1>1 DEF ScreenOK
<1>7. MadeOK' BY <1>1 DEF MadeOK, NotMade
<1>8. MissesOK' BY <1>1, <1>3, <1>4 DEF MissesOK
<1>9. OwnInv'
  <2> SUFFICES ASSUME NEW x \in copy'.missed, x[1] = "own", ~copy'.invalid
               PROVE  followed \notin Invalidated[x[2]] \cup Filled[x[2]]
    BY <1>1 DEF OwnInv
  <2>1. x \in copy.missed /\ x[2] # m BY <1>4
  <2> QED BY <1>3, <2>1 DEF OwnInv, Settled
<1>10. CrossedInv' BY <1>1, <1>8, CrossedByNone DEF NotMade
<1> QED BY <1>5, <1>6, <1>7, <1>8, <1>9, <1>10

LEMMA ChangeKeeps ==
  ASSUME ConsoleInv, NEW f \in Facts, NEW given \in BOOLEAN, Change(f, given)
  PROVE  ConsoleInv'
<1> USE DEF ConsoleInv
<1> DEFINE others == Missing("other", "none", {f})
<1>1. /\ UNCHANGED <<followed, page, dialog, present, session, pending, made>>
      /\ copy' = IF copy.held THEN [copy EXCEPT !.missed = @ \cup others] ELSE copy
      /\ fetch' = IF fetch.on /\ given
                  THEN [fetch EXCEPT !.missed = @ \cup others] ELSE fetch
  BY DEF Change
<1>2. others \subseteq Misses BY MissingAreMisses DEF Reasons
<1>3. \A x \in others : x[1] = "other" BY DEF Missing
<1> HIDE DEF others
<1>4. /\ copy'.held = copy.held /\ copy'.invalid = copy.invalid
      /\ copy'.missed \in {copy.missed, copy.missed \cup others}
      /\ ~copy.held => copy'.missed = copy.missed
      /\ fetch'.missed \in {fetch.missed, fetch.missed \cup others}
  BY <1>1 DEF TypeOK
<1>5. /\ \A x \in copy'.missed : x[1] # "other" => x \in copy.missed
      /\ \A x \in fetch'.missed : x[1] # "other" => x \in fetch.missed
  BY <1>3, <1>4
<1>6. TypeOK' BY <1>1, <1>2 DEF TypeOK
<1>7. ScreenOK' BY <1>1 DEF ScreenOK
<1>8. MadeOK' BY <1>1 DEF MadeOK
<1>9. MissesOK' BY <1>1, <1>4, <1>5 DEF MissesOK
<1>10. OwnInv' BY <1>1, <1>4, <1>5 DEF OwnInv, Settled
<1>11. CrossedInv'
  <2>1. ASSUME NEW g
        PROVE  /\ <<"crossed", made.what, g>> \in copy'.missed =>
                    <<"crossed", made.what, g>> \in copy.missed
               /\ <<"crossed", made.what, g>> \in fetch'.missed =>
                    <<"crossed", made.what, g>> \in fetch.missed
    BY <1>5
  <2> QED BY <1>1, <1>4, <2>1 DEF CrossedInv, OnScreen
<1> QED BY <1>6, <1>7, <1>8, <1>9, <1>10, <1>11

\* No save that lands on another page fills the cache.
LEMMA LandingFillsNothing ==
  ASSUME NEW m \in Saves, SaveOf[m].lands # ""
  PROVE  Filled[m] = {}
BY WhereLanded, SettingsAreFilled, OnlySettingsFill

\* The save that is over has marked or filled what it could.
LEMMA AnsweredOwn ==
  ASSUME ConsoleInv, NEW m \in Saves, pending.what = m,
         followed' = followed, pending' = NoSave,
         copy' = IF followed \in Filled[m] THEN Read({}) ELSE MarkedCopy(m)
  PROVE  /\ OwnInv'
         /\ copy'.missed \in {{}, copy.missed}
         /\ ~copy'.held => copy'.missed = {}
         /\ copy' \in [held : BOOLEAN, invalid : BOOLEAN, missed : SUBSET Misses]
         /\ Marked(m) /\ followed \notin Filled[m] =>
              copy'.invalid \/ copy'.missed = {}
<1> USE DEF ConsoleInv
<1>1. copy \in [held : BOOLEAN, invalid : BOOLEAN, missed : SUBSET Misses] BY DEF TypeOK
<1>2. ~copy.held => copy.missed = {} BY DEF MissesOK
<1>3. CASE followed \in Filled[m]
  BY <1>3 DEF Read, OwnInv
<1>4. CASE followed \notin Filled[m] /\ ~Marked(m)
  <2>1. copy' = copy BY <1>4 DEF MarkedCopy
  <2>2. ASSUME NEW x \in copy.missed, x[1] = "own", ~copy.invalid
        PROVE  followed \notin Invalidated[x[2]] \cup Filled[x[2]]
    <3>1. CASE x[2] = m BY <1>4, <3>1 DEF Marked
    <3>2. CASE x[2] # m BY <2>2, <3>2 DEF OwnInv, Settled
    <3> QED BY <3>1, <3>2
  <2> QED BY <1>1, <1>2, <1>4, <2>1, <2>2 DEF OwnInv
<1>5. CASE followed \notin Filled[m] /\ Marked(m)
  <2>1. copy' = [copy EXCEPT !.invalid = copy.held] BY <1>5 DEF MarkedCopy
  <2>2. copy'.held = copy.held /\ copy'.invalid = copy.held /\ copy'.missed = copy.missed
    BY <1>1, <2>1
  <2> QED BY <1>1, <1>2, <2>1, <2>2 DEF OwnInv
<1> QED BY <1>3, <1>4, <1>5

LEMMA DonePending ==
  ASSUME TypeOK, pending.done
  PROVE  pending # NoSave /\ pending.what \in Saves
BY DEF TypeOK, NoSave

LEMMA SentIsFetch == Sent \in [on : BOOLEAN, missed : SUBSET Misses]
<1>1. {} \in SUBSET Misses OBVIOUS
<1> QED BY <1>1 DEF Sent

LEMMA SucceedKeeps ==
  ASSUME ConsoleInv, Succeed
  PROVE  ConsoleInv'
<1> USE DEF ConsoleInv
<1> DEFINE m == pending.what
<1>1. /\ copy' = IF followed \in Filled[m] THEN Read({}) ELSE MarkedCopy(m)
      /\ fetch' = Refetched(m) /\ dialog' \in {dialog, "none"} /\ pending' = NoSave
      /\ UNCHANGED <<followed, page, present, session, made>>
      /\ pending.done
  BY DEF Succeed
<1>2. m \in Saves /\ pending # NoSave BY <1>1, DonePending
<1> HIDE DEF m
<1>3. fetch' \in {fetch, Sent} BY <1>1 DEF Refetched
<1>4. /\ OwnInv'
      /\ copy'.missed \in {{}, copy.missed}
      /\ ~copy'.held => copy'.missed = {}
      /\ copy' \in [held : BOOLEAN, invalid : BOOLEAN, missed : SUBSET Misses]
      /\ Marked(m) /\ followed \notin Filled[m] => copy'.invalid \/ copy'.missed = {}
  BY <1>1, <1>2, AnsweredOwn DEF m
<1>5. TypeOK'
  <2>1. fetch' \in [on : BOOLEAN, missed : SUBSET Misses] BY <1>3, SentIsFetch DEF TypeOK
  <2> QED BY <1>1, <1>4, <2>1 DEF TypeOK
<1>6. ScreenOK' BY <1>1 DEF ScreenOK
<1>7. MadeOK' BY <1>1 DEF MadeOK
<1>8. MissesOK' BY <1>1, <1>3, <1>4 DEF MissesOK, Sent
<1>9. CrossedInv'
  <2> SUFFICES ASSUME made.where = "here", made.what \notin DOMAIN SetsData,
                      NEW f \in Facts, OnScreen(f)',
                      \/ ~copy'.invalid /\ <<"crossed", made.what, f>> \in copy'.missed
                      \/ <<"crossed", made.what, f>> \in fetch'.missed
               PROVE  FALSE
    BY <1>1 DEF CrossedInv
  <2>1. made.what = m BY <1>2 DEF MadeOK, m
  <2>2. page \in SaveOf[m].on BY <1>2, <2>1, ScreenNames DEF MadeOK
  <2>3. f \in SaveOf[m].writes
    <3> DEFINE x == <<"crossed", m, f>>
    <3>1. x \in copy'.missed \cup fetch'.missed BY <2>1
    <3>2. x[1] # "other" /\ x[2] = m /\ x[3] = f OBVIOUS
    <3> HIDE DEF x
    <3> QED BY <1>8, <3>1, <3>2 DEF MissesOK
  <2>4. page \in Pages /\ <<followed, f>> \in Shown[<<page, dialog>>]
    BY <1>1, DialogAddsToPage DEF OnScreen, TypeOK
  <2>5. Filled[m] = {} BY <1>2, <2>1, OnlySettingsFill
  <2>6. Marked(m)
    BY <1>2, <2>2, <2>3, <2>4, <2>5, OfferedIsMarked DEF Marked, TypeOK, ScreenOK
  <2>7. Observing(page, dialog) BY <2>4, ShownIsObserved DEF Observing, TypeOK
  <2>8. fetch' = Sent BY <1>1, <2>6, <2>7 DEF Refetched
  <2> QED BY <1>4, <2>5, <2>6, <2>8 DEF Sent
<1> QED BY <1>4, <1>5, <1>6, <1>7, <1>8, <1>9

LEMMA SucceedAndLandKeeps ==
  ASSUME ConsoleInv, NEW aged \in BOOLEAN, SucceedAndLand(aged)
  PROVE  ConsoleInv'
<1> USE DEF ConsoleInv
<1> DEFINE m == pending.what
<1>1. /\ copy' = MarkedCopy(m)
      /\ page' = SaveOf[m].lands /\ SaveOf[m].lands # "" /\ dialog' = "none"
      /\ pending' = NoSave /\ made' = [made EXCEPT !.where = "landed"]
      /\ UNCHANGED <<followed, present, session>>
      /\ pending.done
  BY DEF SucceedAndLand
<1>2. m \in Saves /\ pending # NoSave BY <1>1, DonePending
<1>3. fetch' \in {fetch, Sent} BY MountedIsQuiet DEF SucceedAndLand, Refetched
<1> HIDE DEF m
<1>4. /\ OwnInv'
      /\ copy'.missed \in {{}, copy.missed}
      /\ ~copy'.held => copy'.missed = {}
      /\ copy' \in [held : BOOLEAN, invalid : BOOLEAN, missed : SUBSET Misses]
  <2>1. Filled[m] = {} BY <1>1, <1>2, LandingFillsNothing
  <2> QED BY <1>1, <1>2, <2>1, AnsweredOwn DEF m
<1>5. page' \in Pages BY <1>1, <1>2, SavesOnPages
<1>6. /\ made' = [what |-> m, where |-> "landed"]
      /\ made'.what = m /\ made'.where = "landed"
  BY <1>1, <1>2 DEF TypeOK, MadeOK, m
<1>7. TypeOK'
  <2>1. fetch' \in [on : BOOLEAN, missed : SUBSET Misses] BY <1>3, SentIsFetch DEF TypeOK
  <2>2. dialog' \in {"none"} \cup DOMAIN DialogParts BY <1>1
  <2> QED BY <1>1, <1>2, <1>4, <1>5, <1>6, <2>1, <2>2 DEF TypeOK
<1>8. ScreenOK' BY <1>1, <1>5, ScreenNames DEF ScreenOK
<1>9. MadeOK'
  <2>1. page' = SaveOf[made'.what].lands /\ dialog' = "none" /\ pending' = NoSave
    BY <1>1, <1>6
  <2> QED BY <1>2, <1>6, <2>1 DEF MadeOK
<1>10. MissesOK'
  <2>1. followed' = followed BY <1>1
  <2>2. fetch'.missed \in {{}, fetch.missed} BY <1>3 DEF Sent
  <2> QED BY <1>4, <2>1, <2>2 DEF MissesOK
<1>11. CrossedInv' BY <1>6, CrossedElsewhere
<1> QED BY <1>4, <1>7, <1>8, <1>9, <1>10, <1>11

-----------------------------------------------------------------------------
(* The theorems *)

LEMMA NextKeeps == ConsoleInv /\ [Next]_vars => ConsoleInv'
<1> SUFFICES ASSUME ConsoleInv, [Next]_vars PROVE ConsoleInv' OBVIOUS
<1>1. CASE UNCHANGED vars
  BY <1>1 DEF vars, ConsoleInv, TypeOK, ScreenOK, MadeOK, MissesOK, OwnInv, CrossedInv,
              Settled, OnScreen
<1>2. CASE \E p \in Pages, aged \in BOOLEAN : Visit(p, aged) BY <1>2, VisitKeeps
<1>3. CASE \E d \in DOMAIN DialogParts, aged \in BOOLEAN : OpenDialog(d, aged)
  BY <1>3, OpenDialogKeeps
<1>4. CASE \/ CloseDialog \/ Collect \/ Answer \/ LoseFetch \/ Poll \/ GoIdle
           \/ (\E aged \in BOOLEAN : MarkActive(aged)) \/ EndSession
  BY <1>4, OnTheSamePageKeeps
<1>5. CASE Unauthorized \/ Logout BY <1>5, SignedOutKeeps
<1>6. CASE RequestOtp \/ ChangeEmail \/ VerifyOtp BY <1>6, SigningInKeeps
<1>7. CASE \E m \in Saves : Submit(m) BY <1>7, SubmitKeeps
<1>8. CASE \E given \in BOOLEAN : Apply(given) BY <1>8, ApplyKeeps
<1>9. CASE Succeed BY <1>9, SucceedKeeps
<1>10. CASE \E aged \in BOOLEAN : SucceedAndLand(aged) BY <1>10, SucceedAndLandKeeps
<1>11. CASE LoseSave BY <1>11, LoseSaveKeeps
<1>12. CASE \E f \in Facts, given \in BOOLEAN : Change(f, given) BY <1>12, ChangeKeeps
<1> QED BY <1>1, <1>2, <1>3, <1>4, <1>5, <1>6, <1>7, <1>8, <1>9, <1>10, <1>11, <1>12 DEF Next

LEMMA ConsoleInvariant == Spec => []ConsoleInv
BY InitHolds, NextKeeps, PTL DEF Spec

(* The screen is always one of the console's pages or a sign-in page, with *)
(* a dialog that is one of its own; a removal lands on a page there is.    *)
THEOREM ConsoleTypeCorrect == Spec => []TypeOK
<1>1. ConsoleInv => TypeOK BY DEF ConsoleInv
<1> QED BY <1>1, ConsoleInvariant, PTL

\* With nothing in flight, no save is unsettled.
LEMMA RestIsSettled ==
  ASSUME pending = NoSave, NEW m
  PROVE  Settled(m)
BY DEF Settled, NoSave

(* However many saves are made, requests lost, pages visited and changes   *)
(* made elsewhere: what a save wrote shows on the page it was made on, or  *)
(* landed on, once the console takes its data for up to date (the          *)
(* invalidateQueries calls of the dialogs and pages are wide enough).      *)
THEOREM SavesAreShown == Spec => []SavedIsShown
<1>1. ConsoleInv => SavedIsShown
  <2> SUFFICES ASSUME ConsoleInv, AtRest, NEW f \in Facts, OnScreen(f)
               PROVE  /\ made.where \in {"here", "landed"} =>
                           <<"own", made.what, f>> \notin copy.missed
                      /\ made.where = "here" /\ made.what \notin DOMAIN SetsData =>
                           <<"crossed", made.what, f>> \notin copy.missed
    BY DEF SavedIsShown
  <2> USE DEF ConsoleInv
  <2>1. pending = NoSave /\ ~copy.invalid BY DEF AtRest
  <2>2. ASSUME made.where \in {"here", "landed"}, <<"own", made.what, f>> \in copy.missed
        PROVE  FALSE
    <3> DEFINE m == made.what
               x == <<"own", m, f>>
    <3>1. x \in copy.missed /\ x[1] = "own" /\ x[2] = m /\ x[3] = f BY <2>2
    <3> HIDE DEF x
    <3>2. m \in Saves /\ f \in SaveOf[m].writes BY <3>1 DEF MissesOK
    <3>3. followed \notin Invalidated[m] \cup Filled[m]
      BY <2>1, <3>1, RestIsSettled DEF OwnInv
    <3>4. page \in Pages /\ <<followed, f>> \in Shown[<<page, dialog>>] BY DEF OnScreen
    <3>5. CASE made.where = "here"
      <4>1. page \in SaveOf[m].on BY <3>2, <3>5, ScreenNames DEF MadeOK
      <4> QED BY <3>2, <3>3, <3>4, <4>1, OfferedIsMarked DEF TypeOK, ScreenOK
    <3>6. CASE made.where = "landed"
      <4>1. page = SaveOf[m].lands /\ dialog = "none" BY <3>6 DEF MadeOK
      <4>2. SaveOf[m].lands # "" BY <3>4, <4>1, ScreenNames
      <4> QED BY <3>2, <3>3, <3>4, <4>1, <4>2, LandingIsMarked
    <3> QED BY <2>2, <3>5, <3>6
  <2>3. made.where = "here" /\ made.what \notin DOMAIN SetsData =>
          <<"crossed", made.what, f>> \notin copy.missed
    BY <2>1 DEF CrossedInv
  <2> QED BY <2>2, <2>3
<1> QED BY <1>1, ConsoleInvariant, PTL

(* And on whatever page the admin goes to next, but for the queries that   *)
(* Lags lists for the save and the retention report.                       *)
THEOREM SavesAreShownElsewhere == Spec => []SavedIsShownElsewhere
<1>1. ConsoleInv => SavedIsShownElsewhere
  <2> SUFFICES ASSUME ConsoleInv, AtRest, NEW x \in copy.missed,
                      x[1] = "own", OnScreen(x[3])
               PROVE  \/ followed = "retention"
                      \/ x[2] \in DOMAIN Lags /\ followed \in Lags[x[2]]
    BY DEF SavedIsShownElsewhere
  <2> USE DEF ConsoleInv
  <2>1. x[2] \in Saves /\ x[3] \in SaveOf[x[2]].writes
    BY DEF MissesOK
  <2>2. followed \notin Invalidated[x[2]] \cup Filled[x[2]]
    BY <2>1, RestIsSettled DEF OwnInv, AtRest
  <2>3. followed \in Lagging(x[2])
    BY <2>1, <2>2, UnmarkedLags DEF OnScreen, TypeOK
  <2> QED BY <2>3 DEF Lagging
<1> QED BY <1>1, ConsoleInvariant, PTL
=============================================================================
