CONSTANTS
    Regions = 6
SPECIFICATION MCSpec
INVARIANTS ConfigurationIsQuiet ControllersAreTakenRight  DmaIsContained LeasesAreExact
PROPERTIES TransactionsEnd BindingsAgree
CHECK_DEADLOCK FALSE
