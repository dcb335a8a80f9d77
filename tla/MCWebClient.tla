---------------------------- MODULE MCWebClient -----------------------------
(***************************************************************************)
(* The components of the browser client for TLC.  They share no variable,  *)
(* so a behaviour takes the steps of one of them, chosen at the start: the  *)
(* interleavings of two would reach no new state of either.                 *)
(***************************************************************************)
EXTENDS PolicyStore, PolicyPages, PolicyForms, ApiClient, ClaimsStore,
        ClaimsDesk, WebSession, WebUnderwriting, WebDocuments, UnderwritingDesk,
        PolicyCard, WebDashboard, WebUi, WebWidgets, TLC

VARIABLE part     \* the component whose steps the behaviour takes

Parts == {"policies", "pages", "forms", "http", "claims", "claimForm",
          "claimPage", "session", "underwriting", "documents", "referrals", "card",
          "dashboard", "interface", "widgets"}

WebInit ==
  /\ part \in Parts
  /\ PolicyStoreInit /\ (part # "policies" => polServer = "APPROVED")
  /\ PolicyPagesInit /\ (part # "pages" => pgPage = "list")
  /\ PolicyFormsInit
  /\ ApiClientInit /\ (part # "http" => apTokens)
  /\ ClaimsStoreInit
  /\ ClaimsDeskInit
  /\ WebSessionInit /\ (part # "session" => ~wsTokens.stored)
  /\ WebUnderwritingInit
  /\ WebDocumentsInit /\ (part # "documents" => ~wdView.card /\ ~wdView.steady)
  /\ UnderwritingDeskInit /\ (part # "referrals" => udView = "queue")
  /\ PolicyCardInit
  /\ WebDashboardInit /\ (part # "dashboard" => dbPart = "page")
  /\ WebUiInit /\ (part # "interface" => uiFamily = "loading")
  /\ WebWidgetsInit /\ (part # "widgets" => wgPart = "search")

\* The variables of the other parts.
Others(p) ==
  /\ p # "policies" => UNCHANGED polVars
  /\ p # "pages" => UNCHANGED pgVars
  /\ p # "forms" => UNCHANGED pfVars
  /\ p # "http" => UNCHANGED apVars
  /\ p # "claims" => UNCHANGED csVars
  /\ p \notin {"claimForm", "claimPage"} => UNCHANGED cdVars
  /\ p # "session" => UNCHANGED wsVars
  /\ p # "underwriting" => UNCHANGED wuVars
  /\ p # "documents" => UNCHANGED wdVars
  /\ p # "referrals" => UNCHANGED udVars
  /\ p # "card" => UNCHANGED pcVars
  /\ p # "dashboard" => UNCHANGED dbVars
  /\ p # "interface" => UNCHANGED uiVars
  /\ p # "widgets" => UNCHANGED wgVars

WebNext ==
  /\ UNCHANGED part
  /\ \/ part = "policies" /\ Others("policies") /\ PolicyStoreNext
     \/ part = "pages" /\ Others("pages") /\ PolicyPagesNext
     \/ part = "forms" /\ Others("forms") /\ PolicyFormsNext
     \/ part = "http" /\ Others("http") /\ ApiClientNext
     \/ part = "claims" /\ Others("claims") /\ ClaimsStoreNext
     \/ part = "claimForm" /\ Others("claimForm") /\ ClaimFormNext
     \/ part = "claimPage" /\ Others("claimPage") /\ ClaimPageNext
     \/ part = "session" /\ Others("session") /\ WebSessionNext
     \/ part = "underwriting" /\ Others("underwriting") /\ WebUnderwritingNext
     \/ part = "documents" /\ Others("documents") /\ WebDocumentsNext
     \/ part = "referrals" /\ Others("referrals") /\ UnderwritingDeskNext
     \/ part = "card" /\ Others("card") /\ PolicyCardNext
     \/ part = "dashboard" /\ Others("dashboard") /\ WebDashboardNext
     \/ part = "interface" /\ Others("interface") /\ WebUiNext
     \/ part = "widgets" /\ Others("widgets") /\ WebWidgetsNext

webVars == <<part, polVars, pgVars, pfVars, apVars, csVars, cdVars, wsVars,
            wuVars, wdVars, udVars, pcVars, dbVars, uiVars, wgVars>>

WebSpec == WebInit /\ [][WebNext]_webVars

\* The slots of calls are alike.
SlotSymmetry == Permutations(ClaimCalls)

-----------------------------------------------------------------------------
\* Every variable of the component that takes the steps is of its type.
WebTypeOK ==
  /\ part = "policies" => PolicyStoreTypeOK
  /\ part = "pages" => PolicyPagesTypeOK
  /\ part = "forms" => PolicyFormsTypeOK
  /\ part = "http" => ApiClientTypeOK
  /\ part = "claims" => ClaimsStoreTypeOK
  /\ part \in {"claimForm", "claimPage"} => ClaimsDeskTypeOK
  /\ part = "session" => WebSessionTypeOK
  /\ part = "underwriting" => WebUnderwritingTypeOK
  /\ part = "documents" => WebDocumentsTypeOK
  /\ part = "referrals" => UnderwritingDeskTypeOK
  /\ part = "card" => PolicyCardTypeOK
  /\ part = "dashboard" => WebDashboardTypeOK
  /\ part = "interface" => WebUiTypeOK
  /\ part = "widgets" => WebWidgetsTypeOK
=============================================================================
