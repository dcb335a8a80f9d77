----------------------------- MODULE MCBackend ------------------------------
(***************************************************************************)
(* The components of the server for TLC.  They share no variable, so a     *)
(* behaviour takes the steps of one of them, chosen at the start: the       *)
(* interleavings of two would reach no new state of either.                 *)
(***************************************************************************)
EXTENDS ClaimsServer, PolicyEvents, ClaimsEvents, EventProducers,
        UnderwritingServer, DocumentStore, RequestPipeline, Endorsements,
        UserAccounts, OutsideCalls, Connections, Analytics, PolicyReads, TLC

VARIABLE part     \* the component whose steps the behaviour takes

Parts == {"claims", "policy events", "claim events", "producers",
          "underwriting", "documents", "pipeline", "endorsements",
          "accounts", "outside", "connections", "analytics", "reads"}

BackInit ==
  /\ part \in Parts
  /\ ClaimsServerInit
  /\ PolicyEventsInit
  /\ ClaimsEventsInit
  /\ EventProducersInit
  /\ UnderwritingServerInit /\ (part # "underwriting" => uvPolicy = 0)
  /\ DocumentStoreInit
  /\ RequestPipelineInit
  /\ EndorsementsInit
  /\ UserAccountsInit /\ (part # "accounts" => uaRow = FreshAccount)
  /\ OutsideCallsInit /\ (part # "outside" => ocKind = "payment" /\ ~ocRules)
  /\ ConnectionsInit
  /\ AnalyticsInit
  /\ PolicyReadsInit

\* The variables of the other parts.
Others(p) ==
  /\ p # "claims" => UNCHANGED slVars
  /\ p # "policy events" => UNCHANGED peVars
  /\ p # "claim events" => UNCHANGED ceVars
  /\ p # "producers" => UNCHANGED epVars
  /\ p # "underwriting" => UNCHANGED uvVars
  /\ p # "documents" => UNCHANGED dcVars
  /\ p # "pipeline" => UNCHANGED rqVars
  /\ p # "endorsements" => UNCHANGED enVars
  /\ p # "accounts" => UNCHANGED uaVars
  /\ p # "outside" => UNCHANGED ocVars
  /\ p # "connections" => UNCHANGED cnVars
  /\ p # "analytics" => UNCHANGED anVars
  /\ p # "reads" => UNCHANGED rdVars

BackNext ==
  /\ UNCHANGED part
  /\ \/ part = "claims" /\ Others("claims") /\ ClaimsServerNext
     \/ part = "policy events" /\ Others("policy events") /\ PolicyEventsNext
     \/ part = "claim events" /\ Others("claim events") /\ ClaimsEventsNext
     \/ part = "producers" /\ Others("producers") /\ EventProducersNext
     \/ part = "underwriting" /\ Others("underwriting") /\ UnderwritingServerNext
     \/ part = "documents" /\ Others("documents") /\ DocumentStoreNext
     \/ part = "pipeline" /\ Others("pipeline") /\ RequestPipelineNext
     \/ part = "endorsements" /\ Others("endorsements") /\ EndorsementsNext
     \/ part = "accounts" /\ Others("accounts") /\ UserAccountsNext
     \/ part = "outside" /\ Others("outside") /\ OutsideCallsNext
     \/ part = "connections" /\ Others("connections") /\ ConnectionsNext
     \/ part = "analytics" /\ Others("analytics") /\ AnalyticsNext
     \/ part = "reads" /\ Others("reads") /\ PolicyReadsNext

backVars == <<part, slVars, peVars, ceVars, epVars, uvVars, dcVars, rqVars,
            enVars, uaVars, ocVars, cnVars, anVars, rdVars>>

BackSpec == BackInit /\ [][BackNext]_backVars

\* The slots of requests are alike.
SlotSymmetry ==
  Permutations(DocumentCalls)

-----------------------------------------------------------------------------
\* Every variable of the component that takes the steps is of its type.
BackTypeOK ==
  /\ part = "claims" => ClaimsServerTypeOK
  /\ part = "policy events" => PolicyEventsTypeOK
  /\ part = "claim events" => ClaimsEventsTypeOK
  /\ part = "producers" => EventProducersTypeOK
  /\ part = "underwriting" => UnderwritingServerTypeOK
  /\ part = "documents" => DocumentStoreTypeOK
  /\ part = "pipeline" => RequestPipelineTypeOK
  /\ part = "endorsements" => EndorsementsTypeOK
  /\ part = "accounts" => UserAccountsTypeOK
  /\ part = "outside" => OutsideCallsTypeOK
  /\ part = "connections" => ConnectionsTypeOK
  /\ part = "analytics" => AnalyticsTypeOK
  /\ part = "reads" => PolicyReadsTypeOK
=============================================================================
