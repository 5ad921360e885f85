----------------------------- MODULE StripeMethods ----------------------------
(***************************************************************************)
(* The methods that the Stripe connector declares                          *)
(* (packages/connectors/src/connectors/stripe/methods-*.ts).  Most         *)
(* resources get theirs from crudMethods(), which declares a method for    *)
(* each option it is given.                                                *)
(***************************************************************************)
EXTENDS ConnectorMethods

coreMethods ==
    UNION {crudMethods(<<"paymentIntents">>, {"create", "list", "search"}),
           Ops(<<"paymentIntents">>, {"listAmountDetailsLineItems"},
               {"confirm", "capture", "cancel", "applyCustomerBalance",
                "incrementAuthorization", "verifyMicrodeposits"}, {}),
           crudMethods(<<"charges">>, {"create", "list", "search"}),
           Ops(<<"charges">>, {}, {"capture"}, {}),
           crudMethods(<<"refunds">>, {"create", "list"}),
           Ops(<<"refunds">>, {}, {"cancel"}, {}),
           Ops(<<"disputes">>, {"retrieve", "list"}, {"update", "close"}, {}),
           crudMethods(<<"paymentMethods">>, {"create", "list"}),
           Ops(<<"paymentMethods">>, {}, {"attach", "detach"}, {}),
           crudMethods(<<"setupIntents">>, {"create", "list"}),
           Ops(<<"setupIntents">>, {}, {"confirm", "cancel", "verifyMicrodeposits"}, {}),
           Ops(<<"tokens">>, {"retrieve"}, {"create"}, {}),
           Ops(<<"sources">>, {"retrieve", "listSourceTransactions"},
               {"create", "update", "verify"}, {}),
           Ops(<<"mandates">>, {"retrieve"}, {}, {}),
           Ops(<<"setupAttempts">>, {"list"}, {}, {}),
           Ops(<<"confirmationTokens">>, {"retrieve"}, {}, {}),
           crudMethods(<<"paymentMethodConfigurations">>,
               {"create", "retrieve", "update", "list"}),
           crudMethods(<<"paymentMethodDomains">>, {"create", "retrieve", "update", "list"}),
           Ops(<<"paymentMethodDomains">>, {}, {"validate"}, {})}

customersMethods ==
    UNION {crudMethods(<<"customers">>, {"create", "list", "del", "search"}),
           Ops(<<"customers">>,
               {"retrieveBalanceTransaction", "listBalanceTransactions", "retrieveCashBalance",
                "listCashBalanceTransactions", "listPaymentMethods", "retrievePaymentMethod",
                "retrieveSource", "listSources", "retrieveTaxId", "listTaxIds"},
               {"createBalanceTransaction", "updateBalanceTransaction", "updateCashBalance",
                "createFundingInstructions", "createSource", "updateSource", "verifySource",
                "createTaxId"}, {"deleteSource", "deleteTaxId", "deleteDiscount"}),
           crudMethods(<<"products">>, {"create", "list", "del", "search"}),
           Ops(<<"products">>, {"retrieveFeature", "listFeatures"}, {"createFeature"},
               {"deleteFeature"}),
           crudMethods(<<"prices">>, {"create", "list", "search"}),
           crudMethods(<<"plans">>, {"create", "list", "del"}),
           crudMethods(<<"coupons">>, {"create", "list", "del"}),
           crudMethods(<<"promotionCodes">>, {"create", "list"}),
           crudMethods(<<"shippingRates">>, {"create", "list"}),
           Ops(<<"taxCodes">>, {"retrieve", "list"}, {}, {}),
           crudMethods(<<"taxRates">>, {"create", "list"})}

customersMore ==
    crudMethods(<<"taxIds">>, {"create", "list", "del"})

billingMethods ==
    UNION {crudMethods(<<"invoices">>, {"create", "list", "del", "search"}),
           Ops(<<"invoices">>, {"listLineItems", "createPreview"},
               {"finalizeInvoice", "pay", "sendInvoice", "voidInvoice", "markUncollectible",
                "updateLineItem", "addLines", "removeLines", "updateLines"}, {}),
           crudMethods(<<"invoiceItems">>, {"create", "list", "del"}),
           Ops(<<"invoicePayments">>, {"retrieve", "list"}, {}, {}),
           Ops(<<"invoiceRenderingTemplates">>, {"retrieve", "list"}, {"archive", "unarchive"},
               {}),
           crudMethods(<<"creditNotes">>, {"create", "list"}),
           Ops(<<"creditNotes">>, {"listLineItems", "preview", "listPreviewLineItems"},
               {"voidCreditNote"}, {}),
           crudMethods(<<"subscriptions">>, {"create", "list", "search"}),
           Ops(<<"subscriptions">>, {}, {"resume", "migrate"}, {"cancel", "deleteDiscount"}),
           crudMethods(<<"subscriptionItems">>, {"create", "list", "del"}),
           crudMethods(<<"subscriptionSchedules">>, {"create", "list"}),
           Ops(<<"subscriptionSchedules">>, {}, {"release"}, {"cancel"})}

billingMore ==
    UNION {crudMethods(<<"quotes">>, {"create", "list"}),
           Ops(<<"quotes">>, {"listLineItems", "listComputedUpfrontLineItems"},
               {"accept", "cancel", "finalizeQuote"}, {}),
           Ops(<<"billing", "alerts">>, {"retrieve", "list"},
               {"create", "activate", "deactivate"}, {"archive"}),
           Ops(<<"billing", "creditBalanceSummary">>, {"retrieve"}, {}, {}),
           Ops(<<"billing", "creditBalanceTransactions">>, {"retrieve", "list"}, {}, {}),
           crudMethods(<<"billing", "creditGrants">>, {"create", "list"}),
           Ops(<<"billing", "creditGrants">>, {}, {"expire"}, {"voidGrant"}),
           crudMethods(<<"billing", "meters">>, {"create", "list"}),
           Ops(<<"billing", "meters">>, {"listEventSummaries"}, {"deactivate", "reactivate"},
               {}),
           Ops(<<"billing", "meterEvents">>, {}, {"create"}, {}),
           Ops(<<"billing", "meterEventAdjustments">>, {}, {"create"}, {}),
           crudMethods(<<"billingPortal", "configurations">>, {"create", "list"}),
           Ops(<<"billingPortal", "sessions">>, {}, {"create"}, {})}

connectMethods ==
    UNION {crudMethods(<<"accounts">>, {"create", "list", "del"}),
           Ops(<<"accounts">>,
               {"retrieveCurrent", "retrieveExternalAccount", "listExternalAccounts",
                "retrievePerson", "listPersons", "listCapabilities", "retrieveCapability"},
               {"reject", "createExternalAccount", "updateExternalAccount", "createPerson",
                "updatePerson", "createLoginLink"}, {"deleteExternalAccount", "deletePerson"}),
           Ops(<<"accountLinks">>, {}, {"create"}, {}),
           Ops(<<"accountSessions">>, {}, {"create"}, {}),
           crudMethods(<<"transfers">>, {"create", "list"}),
           Ops(<<"transfers">>, {"retrieveReversal", "listReversals"},
               {"createReversal", "updateReversal"}, {}),
           crudMethods(<<"payouts">>, {"create", "list"}),
           Ops(<<"payouts">>, {}, {"cancel", "reverse"}, {}),
           crudMethods(<<"topups">>, {"create", "list"}),
           Ops(<<"topups">>, {}, {"cancel"}, {}),
           Ops(<<"applicationFees">>, {"retrieve", "list", "retrieveRefund", "listRefunds"},
               {"createRefund", "updateRefund"}, {}),
           Ops(<<"balance">>, {"retrieve"}, {}, {}),
           Ops(<<"balanceSettings">>, {"retrieve"}, {"update"}, {}),
           Ops(<<"balanceTransactions">>, {"retrieve", "list"}, {}, {}),
           Ops(<<"countrySpecs">>, {"retrieve", "list"}, {}, {}),
           Ops(<<"exchangeRates">>, {"retrieve", "list"}, {}, {})}

checkoutMethods ==
    UNION {crudMethods(<<"checkout", "sessions">>, {"create", "list"}),
           Ops(<<"checkout", "sessions">>, {"listLineItems"}, {"expire"}, {}),
           crudMethods(<<"paymentLinks">>, {"create", "list"}),
           Ops(<<"paymentLinks">>, {"listLineItems"}, {}, {})}

issuingMethods ==
    UNION {Ops(<<"issuing", "authorizations">>, {"retrieve", "list"}, {"update", "approve"}, {}),
           crudMethods(<<"issuing", "cardholders">>, {"create", "list"}),
           crudMethods(<<"issuing", "cards">>, {"create", "list"}),
           crudMethods(<<"issuing", "disputes">>, {"create", "list"}),
           Ops(<<"issuing", "disputes">>, {}, {"submit"}, {}),
           crudMethods(<<"issuing", "personalizationDesigns">>, {"create", "list"}),
           Ops(<<"issuing", "physicalBundles">>, {"retrieve", "list"}, {}, {}),
           Ops(<<"issuing", "tokens">>, {"retrieve", "list"}, {"update"}, {}),
           Ops(<<"issuing", "transactions">>, {"retrieve", "list"}, {"update"}, {})}

treasuryMethods ==
    UNION {crudMethods(<<"treasury", "financialAccounts">>, {"create", "list"}),
           Ops(<<"treasury", "financialAccounts">>, {"retrieveFeatures"},
               {"close", "updateFeatures"}, {}),
           Ops(<<"treasury", "inboundTransfers">>, {"retrieve", "list"}, {"create", "cancel"},
               {}),
           Ops(<<"treasury", "outboundPayments">>, {"retrieve", "list"}, {"create", "cancel"},
               {}),
           Ops(<<"treasury", "outboundTransfers">>, {"retrieve", "list"}, {"create", "cancel"},
               {}),
           Ops(<<"treasury", "creditReversals">>, {"retrieve", "list"}, {"create"}, {}),
           Ops(<<"treasury", "debitReversals">>, {"retrieve", "list"}, {"create"}, {}),
           Ops(<<"treasury", "receivedCredits">>, {"retrieve", "list"}, {}, {}),
           Ops(<<"treasury", "receivedDebits">>, {"retrieve", "list"}, {}, {}),
           Ops(<<"treasury", "transactionEntries">>, {"retrieve", "list"}, {}, {}),
           Ops(<<"treasury", "transactions">>, {"retrieve", "list"}, {}, {})}

otherMethods ==
    UNION {crudMethods(<<"terminal", "configurations">>, {"create", "list", "del"}),
           Ops(<<"terminal", "connectionTokens">>, {}, {"create"}, {}),
           crudMethods(<<"terminal", "locations">>, {"create", "list", "del"}),
           crudMethods(<<"terminal", "readers">>, {"create", "list", "del"}),
           Ops(<<"terminal", "readers">>, {},
               {"cancelAction", "processPaymentIntent", "processSetupIntent", "refundPayment",
                "collectInputs", "collectPaymentMethod", "confirmPaymentIntent"}, {}),
           crudMethods(<<"identity", "verificationSessions">>, {"create", "list"}),
           Ops(<<"identity", "verificationSessions">>, {}, {"cancel"}, {"redact"}),
           Ops(<<"identity", "verificationReports">>, {"retrieve", "list"}, {}, {}),
           Ops(<<"financialConnections", "accounts">>, {"retrieve", "list", "listOwners"},
               {"disconnect", "refresh", "subscribe", "unsubscribe"}, {}),
           Ops(<<"financialConnections", "sessions">>, {"retrieve"}, {"create"}, {}),
           Ops(<<"financialConnections", "transactions">>, {"retrieve", "list"}, {}, {}),
           Ops(<<"tax", "calculations">>, {"retrieve", "listLineItems"}, {"create"}, {}),
           crudMethods(<<"tax", "registrations">>, {"create", "list"}),
           Ops(<<"tax", "settings">>, {"retrieve"}, {"update"}, {}),
           Ops(<<"tax", "transactions">>, {"retrieve", "listLineItems"},
               {"createFromCalculation", "createReversal"}, {}),
           Ops(<<"radar", "earlyFraudWarnings">>, {"retrieve", "list"}, {}, {}),
           crudMethods(<<"radar", "valueLists">>, {"create", "list", "del"}),
           crudMethods(<<"radar", "valueListItems">>, {"create", "list", "del"}),
           Ops(<<"reporting", "reportRuns">>, {"retrieve", "list"}, {"create"}, {}),
           Ops(<<"reporting", "reportTypes">>, {"retrieve", "list"}, {}, {}),
           Ops(<<"sigma", "scheduledQueryRuns">>, {"retrieve", "list"}, {}, {}),
           Ops(<<"events">>, {"retrieve", "list"}, {}, {}),
           Ops(<<"files">>, {"retrieve", "list"}, {"create"}, {}),
           crudMethods(<<"fileLinks">>, {"create", "list"}),
           crudMethods(<<"webhookEndpoints">>, {"create", "list", "del"}),
           Ops(<<"reviews">>, {"retrieve", "list"}, {"approve"}, {}),
           crudMethods(<<"applePayDomains">>, {"create", "list", "del"}),
           Ops(<<"ephemeralKeys">>, {}, {"create"}, {"delete"}),
           Ops(<<"customerSessions">>, {}, {"create"}, {}),
           Ops(<<"apps", "secrets">>, {"find", "list"}, {"create"}, {"deleteWhere"}),
           Ops(<<"entitlements", "activeEntitlements">>, {"retrieve", "list"}, {}, {}),
           crudMethods(<<"entitlements", "features">>, {"create", "list"}),
           Ops(<<"forwarding", "requests">>, {"retrieve", "list"}, {"create"}, {})}

otherMore ==
    UNION {Ops(<<"paymentAttemptRecords">>, {"retrieve", "list"}, {}, {}),
           Ops(<<"paymentRecords">>, {"retrieve"}, {}, {})}

AllStripeMethods ==
    coreMethods \cup customersMethods \cup customersMore \cup billingMethods
      \cup billingMore \cup connectMethods \cup checkoutMethods \cup issuingMethods
      \cup treasuryMethods \cup otherMethods \cup otherMore

ASSUME StripeNamesAssumption == UniqueNames(AllStripeMethods)
===============================================================================
