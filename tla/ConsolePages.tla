----------------------------- MODULE ConsolePages -----------------------------
(***************************************************************************)
(* What the pages of the admin console display and what their buttons and  *)
(* dialogs save, as tables the query-cache machine of Console runs over.   *)
(*                                                                         *)
(* The backend's data is abstracted to the facts the pages tell apart.  A  *)
(* query reads some facts, a part of a page displays some of the facts of  *)
(* some of its queries, and a save changes facts and then marks the        *)
(* queries under some key prefixes as out of date.  One server, one key    *)
(* and one holder stand for each kind of detail page.  "label" is a        *)
(* server's name, which many queries join to a key, and "srv" the rest of  *)
(* what a server row says of the server itself.                            *)
(***************************************************************************)
EXTENDS Sequences, SequencesExt

Facts == {"name", "plan", "price", "usage", "link", "host", "keys",
          "metrics", "srv", "label", "default", "servers", "holder", "user",
          "users", "primary", "renewal", "payment", "activity", "order",
          "admin", "settings", "share", "me"}

(* Two tables as one. *)
Both(f, g) ==
  [x \in DOMAIN f \cup DOMAIN g |-> IF x \in DOMAIN f THEN f[x] ELSE g[x]]

(***************************************************************************)
(* The queries: their key, the facts the handler behind them reads.        *)
(***************************************************************************)
KeyRow == {"name", "plan", "price", "usage", "link", "holder", "user"}
ServerRow == {"srv", "label", "default", "servers", "metrics"}

UserQueries ==
  [admins   |-> [key |-> <<"admins">>, reads |-> {"admin"}],
   users    |-> [key |-> <<"users">>,
                 reads |-> KeyRow \cup {"users", "primary", "label"}],
   user     |-> [key |-> <<"users", "id">>,
                 reads |-> KeyRow \cup {"users", "primary", "label"}],
   activity |-> [key |-> <<"users", "id", "activity">>, reads |-> {"activity"}]]

KeyQueries ==
  [keys        |-> [key |-> <<"keys">>, reads |-> KeyRow \cup {"keys", "label"}],
   unassigned  |-> [key |-> <<"keys", "unassigned">>,
                    reads |-> KeyRow \cup {"keys", "label"}],
   key         |-> [key |-> <<"keys", "id">>,
                    reads |-> KeyRow \cup {"keys", "label"}],
   keyRenewals |-> [key |-> <<"keys", "id", "renewals">>,
                    reads |-> {"renewal", "payment"}],
   keyDaily    |-> [key |-> <<"keys", "id", "daily">>, reads |-> {"usage"}]]

ServerQueries ==
  [serverList     |-> [key |-> <<"servers", "window">>,
                       reads |-> ServerRow \cup {"keys", "plan", "price",
                                                 "usage", "renewal"}],
   server         |-> [key |-> <<"servers", "id", "window">>,
                       reads |-> ServerRow \cup KeyRow \cup {"keys", "host"}],
   serverRenewals |-> [key |-> <<"servers", "id", "renewals">>,
                       reads |-> {"renewal", "payment", "name", "user",
                                 "holder", "keys"}]]

DashboardQueries ==
  [stats     |-> [key |-> <<"stats">>,
                  reads |-> {"servers", "keys", "plan", "usage"}],
   settings  |-> [key |-> <<"settings">>, reads |-> {"settings"}],
   orders    |-> [key |-> <<"orders", "status">>, reads |-> {"order", "label"}],
   retention |-> [key |-> <<"analytics", "retention">>,
                  reads |-> {"users", "plan", "renewal", "keys", "holder"}]]

(* The share link is read by a POST that creates it when it is missing. *)
ShareQuery ==
  [share |-> [key |-> <<"users", "id", "share">>, reads |-> {"share"}]]

MeQuery == [me |-> [key |-> <<"auth", "me">>, reads |-> {"me"}]]

QueryOf ==
  Both(Both(UserQueries, KeyQueries),
       Both(Both(ServerQueries, DashboardQueries), Both(ShareQuery, MeQuery)))

Queries == DOMAIN QueryOf

(* The queries an invalidation of the key prefix p matches. *)
Under(p) == {q \in Queries : IsPrefix(p, QueryOf[q].key)}

(***************************************************************************)
(* What is displayed: pairs of a query and a fact of its data.  One        *)
(* definition per part of a page, and a page is the union of its parts.    *)
(***************************************************************************)
Of(q, facts) == {<<q, f>> : f \in facts}

(* The layout every console page is in: the operator's name and, on a      *)
(* detail page, the names in the trail above it.                           *)
AppSidebar == Of("me", {"me"})
ServerCrumbs == Of("server", {"label"})
KeyCrumbs == Of("key", {"name"}) \cup Of("server", {"label"})
UserCrumbs == Of("user", {"users", "user"})

(* The key detail page. *)
KeyHeader == Of("key", {"name", "plan", "holder", "user"})
             \cup Of("server", {"label", "metrics"})
UsageBar(q) == Of(q, {"usage", "plan"})
KeyStatsGrid == Of("key", {"usage", "plan"}) \cup Of("server", {"metrics"})
KeyPlanCard == UsageBar("key") \cup Of("key", {"usage", "plan"})
KeyConnectionCard == Of("key", {"link"}) \cup Of("server", {"label", "host"})
RenewalHistory == Of("keyRenewals", {"renewal", "payment"})
KeyLimitHistoryChart == Of("keyRenewals", {"renewal"})
DailyTrafficCard == Of("keyDaily", {"usage"})
KeyUsageDonut == Of("key", {"usage", "plan"})

KeyDetailPage ==
  KeyHeader \cup KeyStatsGrid \cup KeyPlanCard \cup KeyConnectionCard
  \cup DailyTrafficCard \cup KeyUsageDonut \cup KeyLimitHistoryChart
  \cup RenewalHistory \cup KeyCrumbs

(* The server detail page and its table of access keys. *)
ServerHeader == Of("server", {"srv", "label"})
BandwidthAlert == Of("server", {"srv", "usage"})
ServerStats == Of("server", {"metrics"})
KeyUsageCell == Of("server", {"usage", "plan"})
KeyExpiryCell == Of("server", {"plan"})
KeysTableColumns == Of("server", {"name", "holder", "user", "plan", "metrics",
                                   "link"})
                    \cup KeyUsageCell \cup KeyExpiryCell
KeysTable == KeysTableColumns \cup Of("server", {"keys", "default"})

ServerDetailPage ==
  ServerHeader \cup BandwidthAlert \cup ServerStats \cup KeysTable
  \cup ServerCrumbs

(* The server list: one card per server. *)
ServerCard == Of("serverList", {"srv", "label", "metrics", "keys", "usage"})
ServersPage == Of("serverList", {"servers"}) \cup ServerCard

(* The two tables of the users page. *)
HolderStatus == Of("users", {"user", "plan", "primary"})
HolderUsageCell == Of("users", {"usage", "plan", "primary"})
HolderExpiryCell == Of("users", {"plan", "primary"})
UsersTable ==
  Of("users", {"users", "user", "label", "price"}) \cup Of("serverList", {"srv"})
  \cup HolderStatus \cup HolderUsageCell \cup HolderExpiryCell
AdminsTable == Of("admins", {"admin"})
UsersPage == UsersTable \cup AdminsTable

(* The holder's page: their primary key, and the keys it is not. *)
UserHeader == Of("user", {"users", "user", "plan", "primary"})
UserStatsGrid == Of("user", {"usage", "plan"}) \cup Of("server", {"metrics"})
UserPlanCard == UsageBar("user") \cup Of("user", {"price"})
                \cup Of("server", {"srv"})
UserConnectionCard == Of("user", {"link", "name", "holder", "label"})
                      \cup Of("server", {"host"})
OtherKeysCard ==
  Of("user", {"primary", "holder", "name", "plan", "usage", "label"})
UserActivityLogTable == Of("activity", {"activity"})

UserDetailPage ==
  UserHeader \cup UserStatsGrid \cup UserPlanCard \cup UserConnectionCard
  \cup DailyTrafficCard \cup KeyLimitHistoryChart \cup OtherKeysCard
  \cup UserActivityLogTable \cup UserCrumbs

(* The overview: totals over the server list, and the keys to look at. *)
OverviewTotals == Of("serverList", {"srv", "metrics", "servers", "price",
                                    "keys", "plan"})
                  \cup Of("stats", {"keys", "plan", "usage"})
                  \cup Of("settings", {"settings"})
BandwidthConsumptionCard == Of("serverList", {"usage", "label"})
CompareServersCard == Of("serverList", {"usage", "label"})
RevenueTrendCard == Of("serverList", {"renewal"}) \cup Of("settings", {"settings"})
KeysAttentionCard ==
  Of("keys", {"keys", "name", "plan", "usage", "holder", "user", "label"})
FleetHealthCard == Of("serverList", {"srv", "label", "keys", "plan"})
RetentionCard ==
  Of("retention", {"users", "plan", "renewal", "keys", "holder"})

OverviewPage ==
  OverviewTotals \cup BandwidthConsumptionCard \cup CompareServersCard
  \cup RevenueTrendCard \cup KeysAttentionCard \cup FleetHealthCard
  \cup RetentionCard

(* Revenue, of the fleet and of one server. *)
ServerRevenue == {"srv", "label", "price", "keys", "plan", "servers"}
RevenueTable == Of("serverList", ServerRevenue)
RevenuePage == RevenueTable \cup RevenueTrendCard
ServerRenewalHistoryTable ==
  Of("serverRenewals",
     {"renewal", "payment", "name", "user", "holder", "keys"})
ServerRevenueDetailPage ==
  Of("serverList", ServerRevenue) \cup RevenueTrendCard
  \cup ServerRenewalHistoryTable

OrdersPage == Of("orders", {"order", "label"})
SettingsPage == Of("settings", {"settings"})

PageParts ==
  [overview |-> OverviewPage, servers |-> ServersPage,
   server |-> ServerDetailPage, key |-> KeyDetailPage,
   users |-> UsersPage, user |-> UserDetailPage,
   revenue |-> RevenuePage, serverRevenue |-> ServerRevenueDetailPage,
   orders |-> OrdersPage, settings |-> SettingsPage]

Pages == DOMAIN PageParts

(* Choosing a holder's key: the servers with their key counts, and the     *)
(* free keys that can be handed over instead of creating one.              *)
ServerSelect == Of("serverList", {"srv", "label", "default", "keys"})
KeySourceFields ==
  Of("unassigned", {"keys", "holder", "plan", "name", "usage"})
UserShareDialog == Of("share", {"share"})

(* The dialogs that read more than the page they are opened from. *)
DialogParts == [newUser   |-> ServerSelect \cup KeySourceFields,
                changeKey |-> ServerSelect \cup KeySourceFields,
                resetShare |-> UserShareDialog]

(* Everything on the screen with dialog d open, or "none", over page p.    *)
Screens == Pages \X ({"none"} \cup DOMAIN DialogParts)
Shown == [s \in Screens |->
            AppSidebar \cup PageParts[s[1]]
            \cup (IF s[2] = "none" THEN {} ELSE DialogParts[s[2]])]
Observed == [s \in Screens |-> {x[1] : x \in Shown[s]}]

(***************************************************************************)
(* The saves.  "on" is where a save is offered, "writes" what the handler  *)
(* it calls changes, "invalidates" the key prefixes its success marks out  *)
(* of date, and "lands" the page its success moves to ("" stays put).      *)
(* (SyncFromKeyAlone and EditKeyDialogAlone, which forget the user pages,  *)
(* and RemoveKeyToList, which lands on a page there is not, are faulty     *)
(* variants.)                                                              *)
(***************************************************************************)
SaveOn(on, writes, invalidates) ==
  [on |-> on, writes |-> writes, invalidates |-> invalidates, lands |-> ""]

(* What a sync of a server with Outline may bring in. *)
SyncWrites == {"srv", "keys", "name", "link", "usage", "plan", "holder"}

TogglePaid == SaveOn({"key"}, {"payment"}, {<<"keys", "id", "renewals">>})
SyncFromKeyAlone ==
  SaveOn({"key"}, SyncWrites, {<<"servers">>, <<"keys">>})
SyncFromKey ==
  SaveOn({"key"}, SyncWrites, {<<"servers">>, <<"keys">>, <<"users">>})
RemoveKeyToList ==
  [SaveOn({"key"}, {"keys", "holder", "primary"},
          {<<"servers">>, <<"keys">>, <<"stats">>, <<"users">>})
   EXCEPT !.lands = "keys"]
RemoveKeyFromPage ==
  [SaveOn({"key"}, {"keys", "holder", "primary"},
          {<<"servers">>, <<"keys">>, <<"stats">>, <<"users">>})
   EXCEPT !.lands = "server"]
RemoveKeyFromTable ==
  SaveOn({"server"}, {"keys", "holder", "primary"},
         {<<"servers">>, <<"keys">>, <<"stats">>})
NewKeyDialog ==
  SaveOn({"server"}, {"keys"}, {<<"servers">>, <<"stats">>})
OverallLimitDialog ==
  SaveOn({"server"}, {"default", "plan"},
         {<<"servers">>, <<"keys">>, <<"users">>})
EditKeyDialogAlone ==
  SaveOn({"key", "server", "user"},
         {"name", "plan", "price", "renewal", "activity"},
         {<<"servers">>, <<"keys">>, <<"stats">>})
EditKeyDialog ==
  SaveOn({"key", "server", "user"},
         {"name", "plan", "price", "renewal", "activity"},
         {<<"servers">>, <<"keys">>, <<"stats">>, <<"users">>})

KeySaves ==
  [togglePaid |-> TogglePaid, syncFromKey |-> SyncFromKey,
   removeKey |-> RemoveKeyFromPage, removeKeyRow |-> RemoveKeyFromTable,
   newKey |-> NewKeyDialog, overallLimit |-> OverallLimitDialog,
   editKey |-> EditKeyDialog]

SyncServer ==
  SaveOn({"server"}, SyncWrites, {<<"servers">>, <<"keys">>, <<"users">>})
SyncAllButton ==
  SaveOn({"servers", "users"}, SyncWrites,
         {<<"servers">>, <<"keys">>, <<"users">>, <<"stats">>})
RemoveServer ==
  [SaveOn({"server"}, {"servers", "keys", "holder", "primary"},
          {<<"servers">>, <<"stats">>}) EXCEPT !.lands = "servers"]
RemoveServerCard == [RemoveServer EXCEPT !.on = {"servers"}, !.lands = ""]
ReenableBandwidth ==
  SaveOn({"server", "servers"}, {"srv", "plan"},
         {<<"servers">>, <<"keys">>, <<"users">>})
AddServerDialog == SaveOn({"servers"}, {"servers", "keys"}, {<<"servers">>})
EditServerSave == SaveOn({"server"}, {"srv", "label"}, {<<"servers">>})
BindDomain ==
  SaveOn({"server"}, {"host", "link"}, {<<"servers">>, <<"keys">>, <<"users">>})
UpdateAPIURL == SaveOn({"server"}, {"srv"}, {<<"servers">>})

ServerSaves ==
  [syncServer |-> SyncServer, syncAll |-> SyncAllButton,
   removeServer |-> RemoveServer, removeServerCard |-> RemoveServerCard,
   reenable |-> ReenableBandwidth, addServer |-> AddServerDialog,
   editServer |-> EditServerSave, bindDomain |-> BindDomain,
   apiUrl |-> UpdateAPIURL]

Promote == SaveOn({"user"}, {"primary", "activity"}, {<<"users">>})
Unlink ==
  SaveOn({"user"}, {"holder", "primary", "activity"}, {<<"users">>, <<"keys">>})
ResetUsage ==
  SaveOn({"user"}, {"usage", "plan", "activity", "keys", "link", "primary"},
         {<<"users">>, <<"keys">>, <<"servers">>, <<"stats">>})
RemoveUserFromPage ==
  [SaveOn({"user"}, {"users", "holder", "primary"}, {<<"users">>, <<"keys">>})
   EXCEPT !.lands = "users"]
RemoveUserFromTable == [RemoveUserFromPage EXCEPT !.on = {"users"}, !.lands = ""]
EditUserDialog == SaveOn({"user"}, {"user", "activity"}, {<<"users">>})
NewUserDialog ==
  SaveOn({"users"}, {"users", "keys", "holder", "primary", "plan"},
         {<<"users">>, <<"servers">>, <<"keys">>, <<"stats">>})
ChangeKeyDialog ==
  SaveOn({"user"}, {"keys", "holder", "primary", "activity"},
         {<<"users">>, <<"servers">>, <<"keys">>, <<"stats">>})
ResetUserShare == SaveOn({"user"}, {"share"}, {<<"users", "id", "share">>})

UserSaves ==
  [promote |-> Promote, unlink |-> Unlink, resetUsage |-> ResetUsage,
   removeUser |-> RemoveUserFromPage, removeUserRow |-> RemoveUserFromTable,
   editUser |-> EditUserDialog, newUser |-> NewUserDialog,
   changeKey |-> ChangeKeyDialog, resetShare |-> ResetUserShare]

NewAdminDialog == SaveOn({"users"}, {"admin"}, {<<"admins">>})
AdminTableSave == SaveOn({"users"}, {"admin"}, {<<"admins">>})
ApproveOrder ==
  SaveOn({"orders"}, {"order", "users", "keys", "holder", "primary"},
         {<<"orders">>})
DecideOrder == SaveOn({"orders"}, {"order"}, {<<"orders">>})

(* Settings are not refetched: the answer of the save is put in the cache. *)
SettingsSave == SaveOn({"settings"}, {"settings"}, {})
SetsData == [m \in {"settings"} |-> {"settings"}]

AdminSaves ==
  [addAdmin |-> NewAdminDialog, adminRow |-> AdminTableSave,
   approve |-> ApproveOrder, rejectOrDelete |-> DecideOrder,
   settings |-> SettingsSave]

SaveOf == Both(Both(KeySaves, ServerSaves), Both(UserSaves, AdminSaves))
Saves == DOMAIN SaveOf

(* What the success of save m marks out of date, and what it fills in. *)
Invalidated == [m \in Saves |-> UNION {Under(p) : p \in SaveOf[m].invalidates}]
Filled == [m \in Saves |-> IF m \in DOMAIN SetsData THEN SetsData[m] ELSE {}]
=============================================================================
