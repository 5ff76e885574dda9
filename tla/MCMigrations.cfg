\* README.md: all TypeORM migrations run against the fresh database
SPECIFICATION Spec
INVARIANT FreshDatabaseMigrates
CHECK_DEADLOCK FALSE
