----------------------------- MODULE Migrations -----------------------------
(***************************************************************************)
(* The migrations of src/migrations, and the schema they lead to when      *)
(* TypeORM runs and reverts them one after the other.  A table comes with  *)
(* the columns of its creation; a statement fails as PostgreSQL makes it   *)
(* fail, and undoes its migration.  The schema is a set of objects         *)
(* <<kind, table, name, referenced table>>.                                *)
(***************************************************************************)
EXTENDS Naturals, Sequences, SequencesExt

VARIABLES
  schema,   \* objects of the database
  applied,  \* rows of the table migrations, in the order of their ids
  run,      \* the run under way: its transactions are for "all" or for "each"
  saved,    \* schema and applied when the transaction of an "all" run began
  \* History, read by properties only.
  failed,   \* migrations whose up has failed
  reverted  \* whether a migration was ever reverted

migrationVars == <<schema, applied, run, saved, failed, reverted>>

-----------------------------------------------------------------------------
(* Statements *)

statement(op, kind, table, names, ref) ==
  [op |-> op, kind |-> kind, table |-> table, names |-> names, ref |-> ref]

createTable(t) == statement("add", "table", t, {""}, "")
createTableIfNotExist(t) == statement("addIfNew", "table", t, {""}, "")
addColumns(t, cols) == statement("add", "column", t, cols, "")
createIndexes(t, names) == statement("add", "index", t, names, "")
createForeignKeys(t, cols, ref) == statement("add", "key", t, cols, ref)
dropIndexes(t, names) == statement("drop", "index", t, names, "")
(* The indexes of a column go with it; here they are gone before.          *)
dropColumns(t, cols) == statement("drop", "column", t, cols, "")
dropTable(t) == statement("dropTable", "table", t, {""}, "")
dropTableIfExist(t) == statement("dropTableIfAny", "table", t, {""}, "")
(* What is looked up in getTable before it is dropped *)
dropFound(t, kind, names) == statement("dropIfAny", kind, t, names, "")
setRoleDefault(v) == statement("default", "default", "users", {v}, "")
dropRoleDefault == statement("default", "default", "users", {}, "")

Adds(s) == {<<s.kind, s.table, n, s.ref>> : n \in s.names}
Named(s, db) == {o \in db : o[1] = s.kind /\ o[2] = s.table /\ o[3] \in s.names}
HasTable(t, db) == <<"table", t, "", "">> \in db
Referenced(t, db) == \E o \in db : o[1] = "key" /\ o[2] # t /\ o[4] = t

Possible(s, db) ==
  \/ s.op = "add" /\ Adds(s) \cap db = {}
       /\ (s.kind = "table" \/ HasTable(s.table, db)) /\ (s.kind = "key" => HasTable(s.ref, db))
  \/ s.op = "drop" /\ \A n \in s.names : \E o \in Named(s, db) : o[3] = n
  \/ s.op = "dropTable" /\ HasTable(s.table, db) /\ ~Referenced(s.table, db)
  \/ s.op = "dropTableIfAny" /\ ~Referenced(s.table, db)
  \/ s.op \in {"addIfNew", "dropIfAny", "default"}

Effect(s, db) ==
  CASE s.op \in {"add", "addIfNew"} -> db \cup Adds(s)
    [] s.op \in {"drop", "dropIfAny"} -> db \ Named(s, db)
    [] s.op \in {"dropTable", "dropTableIfAny"} -> {o \in db : o[2] # s.table}
    [] s.op = "default" -> {o \in db : o[1] # "default"} \cup Adds(s)

(* The statements one after the other, until one is impossible *)
Execute(statements, db) ==
  FoldLeft(LAMBDA acc, s : IF acc.ok /\ Possible(s, acc.db)
                             THEN [ok |-> TRUE, db |-> Effect(s, acc.db)]
                             ELSE [ok |-> FALSE, db |-> acc.db],
           [ok |-> TRUE, db |-> db], statements)

-----------------------------------------------------------------------------
(* The migrations.  stamp is the rank of the number in the class's name.   *)

UserMigration == [stamp |-> 1,
  up |-> <<createTable("users")>>,
  down |-> <<>>]

AdvancedIndexes ==
  {"ROLE", "STATUS", "ORG_ID", "CREATED_AT", "IS_DELETED", "STATUS_CREATED_AT_ID",
   "ORG_ID_CREATED_AT_ID", "ROLE_STATUS_CREATED_AT_ID"}
AdvancedColumns ==
  {"role", "status", "org_id", "created_at", "updated_at", "is_deleted", "search_text"}

(* The raw CREATE INDEX does not quote the name, which PostgreSQL folds to *)
(* lower case; down quotes it.                                             *)
AddAdvancedUserFields == [stamp |-> 2,
  up |-> <<addColumns("users", AdvancedColumns), setRoleDefault("user"),
           createIndexes("users", AdvancedIndexes), createIndexes("users", {"search_text"})>>,
  down |-> <<dropIndexes("users", {"SEARCH_TEXT"}), dropIndexes("users", AdvancedIndexes),
             dropColumns("users", AdvancedColumns), dropRoleDefault>>]

ProfileFields == {"displayName", "bio", "avatarUrl"}
AddUserProfileFields == [stamp |-> 3,
  up |-> <<addColumns("users", ProfileFields)>>,
  down |-> <<dropColumns("users", ProfileFields)>>]

CreatePostsTable == [stamp |-> 4,
  up |-> <<createTableIfNotExist("posts"), createForeignKeys("posts", {"creatorId"}, "users"),
           createIndexes("posts", {"creatorId_publishedAt", "visibility_publishedAt",
                                   "creatorId_visibility"})>>,
  down |-> <<dropFound("posts", "key", {"creatorId"}), dropTable("posts")>>]

CreateRefreshTokens == [stamp |-> 5,
  up |-> <<createTable("refresh_tokens"), createForeignKeys("refresh_tokens", {"userId"}, "users"),
           createIndexes("refresh_tokens", {"USER_REVOKED", "FAMILY"})>>,
  down |-> <<dropIndexes("refresh_tokens", {"FAMILY", "USER_REVOKED"}), dropTable("refresh_tokens")>>]

AuditIndexes == {"CREATED_AT", "ACTION", "ACTOR_ID"}
\* Mutant: down leaves the table.
CreateAuditLogs_KeepsTable == [stamp |-> 6,
  up |-> <<createTable("audit_logs"), createIndexes("audit_logs", AuditIndexes)>>,
  down |-> <<dropIndexes("audit_logs", AuditIndexes)>>]

CreateAuditLogs == [stamp |-> 6,
  up |-> <<createTable("audit_logs"), createIndexes("audit_logs", AuditIndexes)>>,
  down |-> <<dropIndexes("audit_logs", AuditIndexes), dropTable("audit_logs")>>]

SubscriptionIndexes == {"FAN_CREATOR", "CREATOR_STATUS", "FAN_STATUS"}
CreateSubscriptions == [stamp |-> 7,
  up |-> <<createTable("subscriptions"),
           createForeignKeys("subscriptions", {"fanId", "creatorId"}, "users"),
           createIndexes("subscriptions", SubscriptionIndexes)>>,
  down |-> <<dropIndexes("subscriptions", SubscriptionIndexes), dropTable("subscriptions")>>]

CreateCreatorProfiles == [stamp |-> 8,
  up |-> <<createTable("creator_profiles"),
           createForeignKeys("creator_profiles", {"userId"}, "users"),
           createIndexes("creator_profiles", {"USER", "HANDLE"})>>,
  down |-> <<dropIndexes("creator_profiles", {"HANDLE", "USER"}), dropTable("creator_profiles")>>]

CreateNotificationPreferences == [stamp |-> 8,
  up |-> <<createTableIfNotExist("notification_preferences"),
           createForeignKeys("notification_preferences", {"userId"}, "users"),
           createIndexes("notification_preferences", {"USER_ID"})>>,
  down |-> <<dropFound("notification_preferences", "key", {"userId"}),
             dropFound("notification_preferences", "index", {"USER_ID"}),
             dropTableIfExist("notification_preferences")>>]

BackfillRolesToEnum == [stamp |-> 9,
  up |-> <<setRoleDefault("fan")>>,
  down |-> <<dropRoleDefault>>]

PasswordResetToken == [stamp |-> 10,
  up |-> <<createTableIfNotExist("password_reset_tokens"),
           createForeignKeys("password_reset_tokens", {"userId"}, "users"),
           createIndexes("password_reset_tokens", {"USER_USED", "EXPIRES_AT"})>>,
  down |-> <<dropTable("password_reset_tokens")>>]

ReportIndexes == {"STATUS_CREATED_AT", "REPORTER_TARGET"}
CreateContentReports == [stamp |-> 11,
  up |-> <<createTableIfNotExist("content_reports"), createIndexes("content_reports", ReportIndexes)>>,
  down |-> <<dropIndexes("content_reports", ReportIndexes), dropTable("content_reports")>>]

AddDeletedAtToPosts == [stamp |-> 12,
  up |-> <<addColumns("posts", {"deletedAt"}),
           createIndexes("posts", {"creatorId_deletedAt_publishedAt"})>>,
  down |-> <<dropIndexes("posts", {"creatorId_deletedAt_publishedAt"}),
             dropColumns("posts", {"deletedAt"})>>]

CreateCommentsTable == [stamp |-> 12,
  up |-> <<createTableIfNotExist("comments"), createForeignKeys("comments", {"postId"}, "posts"),
           createForeignKeys("comments", {"authorId"}, "users"),
           createForeignKeys("comments", {"parentId"}, "comments"),
           createIndexes("comments", {"POST_CREATED_AT", "PARENT"})>>,
  down |-> <<dropIndexes("comments", {"PARENT", "POST_CREATED_AT"}),
             dropFound("comments", "key", {"postId", "authorId", "parentId"}),
             dropTable("comments")>>]

AddFeedIndexes == [stamp |-> 13,
  up |-> <<createIndexes("posts", {"feed_creator_published_id"})>>,
  down |-> <<dropIndexes("posts", {"feed_creator_published_id"})>>]

ConversationIndexes == {"FAN_CREATOR", "FAN_LAST_MESSAGE", "CREATOR_LAST_MESSAGE"}
MessageIndexes == {"CONVERSATION_ID", "CLIENT_ID"}
CreateMessagingTables == [stamp |-> 13,
  up |-> <<createTableIfNotExist("conversations"), createTableIfNotExist("messages"),
           createForeignKeys("conversations", {"fanId", "creatorId"}, "users"),
           createForeignKeys("messages", {"conversationId"}, "conversations"),
           createForeignKeys("messages", {"senderId"}, "users"),
           createIndexes("conversations", ConversationIndexes),
           createIndexes("messages", MessageIndexes)>>,
  down |-> <<dropIndexes("messages", MessageIndexes),
             dropFound("messages", "key", {"conversationId", "senderId"}), dropTable("messages"),
             dropIndexes("conversations", ConversationIndexes),
             dropFound("conversations", "key", {"fanId", "creatorId"}), dropTable("conversations")>>]

ActiveIndexes == {"creator_published_active", "visibility_published_active", "creator_deletedAt"}
PlainIndexes == {"creatorId_publishedAt", "visibility_publishedAt"}
AddPostSoftDelete == [stamp |-> 14,
  up |-> <<addColumns("posts", {"deletedAt"}), addColumns("posts", {"deletedById"}),
           createForeignKeys("posts", {"deletedById"}, "users"),
           dropFound("posts", "index", PlainIndexes), createIndexes("posts", ActiveIndexes)>>,
  down |-> <<dropIndexes("posts", ActiveIndexes), createIndexes("posts", PlainIndexes),
             dropFound("posts", "key", {"deletedById"}),
             dropColumns("posts", {"deletedById", "deletedAt"})>>]

TipIndexes == {"CREATOR_STATUS_CREATED_AT", "FAN_STATUS_CREATED_AT"}
CreateTips == [stamp |-> 14,
  up |-> <<createTable("tips"), createForeignKeys("tips", {"fanId", "creatorId"}, "users"),
           createIndexes("tips", TipIndexes)>>,
  down |-> <<dropIndexes("tips", TipIndexes), dropTable("tips")>>]

CreateBillingWebhooks == [stamp |-> 15,
  up |-> <<createTableIfNotExist("billing_webhook_events"),
           createIndexes("billing_webhook_events", {"eventId", "status_receivedAt"}),
           createTableIfNotExist("billing_customer_maps"),
           createIndexes("billing_customer_maps", {"externalSubscriptionId", "externalCustomerId"})>>,
  down |-> <<dropTableIfExist("billing_customer_maps"), dropTableIfExist("billing_webhook_events")>>]

(* In the order of their files *)
Files ==
  <<UserMigration, AddAdvancedUserFields, AddUserProfileFields, CreatePostsTable,
    CreateRefreshTokens, CreateAuditLogs, CreateSubscriptions, CreateCreatorProfiles,
    CreateNotificationPreferences, BackfillRolesToEnum, PasswordResetToken, CreateContentReports,
    AddDeletedAtToPosts, CreateCommentsTable, AddFeedIndexes, CreateMessagingTables,
    AddPostSoftDelete, CreateTips, CreateBillingWebhooks>>

-----------------------------------------------------------------------------
(* TypeORM's runner *)

Pending == DOMAIN Files \ ToSet(applied)

Init ==
  /\ schema = {} /\ applied = <<>>
  /\ run = "none" /\ saved = <<>>
  /\ failed = {} /\ reverted = FALSE

(* migration:run, in one transaction or in one for each migration *)
StartRun(mode) ==
  /\ run = "none" /\ Pending # {}
  /\ run' = mode
  /\ saved' = <<schema, applied>>
  /\ UNCHANGED <<schema, applied, failed, reverted>>

EndRun == run' = "none" /\ saved' = <<>>

(* What a failure or a crash leaves behind *)
Abort ==
  /\ EndRun
  /\ IF run = "all" THEN schema' = saved[1] /\ applied' = saved[2]
                    ELSE UNCHANGED <<schema, applied>>

(* The next migration is a pending one with the least stamp: the order of  *)
(* equal ones is that in which their files happen to be loaded.            *)
Apply(m) ==
  LET done == Execute(Files[m].up, schema) IN
  /\ run # "none" /\ m \in Pending
  /\ \A n \in Pending : Files[m].stamp <= Files[n].stamp
  /\ \/ /\ done.ok
        /\ schema' = done.db /\ applied' = Append(applied, m)
        /\ IF Pending = {m} THEN EndRun ELSE UNCHANGED <<run, saved>>
        /\ UNCHANGED failed
     \/ /\ ~done.ok
        /\ failed' = failed \cup {m}
        /\ Abort
  /\ UNCHANGED reverted

Crash == run # "none" /\ Abort /\ UNCHANGED <<failed, reverted>>

(* migration:revert undoes the last one, or fails and changes nothing. *)
Revert ==
  /\ run = "none" /\ applied # <<>>
  /\ LET done == Execute(Files[Last(applied)].down, schema) IN
       done.ok /\ schema' = done.db /\ applied' = Front(applied)
  /\ reverted' = TRUE
  /\ UNCHANGED <<run, saved, failed>>

Next ==
  \/ \E mode \in {"all", "each"} : StartRun(mode)
  \/ \E m \in DOMAIN Files : Apply(m)
  \/ Crash \/ Revert

Spec == Init /\ [][Next]_migrationVars

-----------------------------------------------------------------------------
(***************************************************************************)
(* Properties                                                              *)
(***************************************************************************)

(* The schema is what the applied migrations make of an empty database, in *)
(* the order of their files, whichever of two with one stamp came first    *)
(* and whatever failed, crashed or was reverted: downs undo their ups.     *)
(* Two downs do not, and are left out: UserMigration's is empty, and       *)
(* BackfillRolesToEnum's drops the default it should restore.              *)
Undone(db) == {o \in db : o[1] # "default" /\ o # <<"table", "users", "", "">>}
Ups(S) == FlattenSeq([i \in DOMAIN Files |-> IF i \in S THEN Files[i].up ELSE <<>>])
SchemaFollowsApplied ==
  Undone(schema) = Undone(Execute(Ups(ToSet(applied)), {}).db)

(* What the README says of the integration suite: all migrations run       *)
(* against the fresh database.  Only a revert may make one fail.           *)
FreshDatabaseMigrates == failed = {} \/ reverted
=============================================================================
