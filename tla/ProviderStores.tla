--------------------------- MODULE ProviderStores ---------------------------
(***************************************************************************)
(* The two databases of the provider layer side by side: EventStore, whose *)
(* definitions are this module's, and ContextStore, whose definitions are  *)
(* those of CS.  They share no state.                                      *)
(***************************************************************************)
EXTENDS EventStore

CONSTANTS Client, Version, Quota, MaxAge, MaxAltered, MaxTime

VARIABLES heads, history, quotas, altered, open, loaded, basis

CS == INSTANCE ContextStore

ASSUME RegistryAssumption == CS!WellFormed

\* The registry after any writes is one that the next start-up accepts.
RestartAccepts == CS!RestartAccepts

\* A replacement in the registry supersedes the version its client had loaded.
NoLostUpdate == CS!NoLostUpdate

\* Work is chosen only where the registry justifies it.
WorkIsJustified == CS!WorkIsJustified
=============================================================================
