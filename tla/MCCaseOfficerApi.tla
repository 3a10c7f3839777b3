--------------------------- MODULE MCCaseOfficerApi ---------------------------
(* A small instance of CaseOfficerApi for TLC. *)
EXTENDS CaseOfficerApi, TLC

Proper ==
    [tier |-> "deployed", referencePrefix |-> "well formed", maxPageSize |-> 2, maxRows |-> 1,
     auth |-> [mode |-> "unset", tenant |-> TRUE, audience |-> TRUE, scope |-> TRUE,
               roles |-> {"case_officer"}],
     emailVerification |-> [baseUrl |-> "https", linkTtl |-> 1, verifiedTtl |-> 2,
                            retention |-> 3, resendCooldown |-> 1,
                            maxSends |-> [k \in {"email", "journey", "global"} |-> 1]]]

\* The proper settings, and others with one or two things different.
MCSetting ==
    {Proper, [Proper EXCEPT !.auth.audience = FALSE], [Proper EXCEPT !.auth.tenant = FALSE],
     [Proper EXCEPT !.tier = "local", !.emailVerification.baseUrl = "http",
                    !.auth.roles = {"viewer"}],
     [Proper EXCEPT !.auth.mode = "mock"], [Proper EXCEPT !.emailVerification.baseUrl = "http"],
     [Proper EXCEPT !.emailVerification.retention = 2], [Proper EXCEPT !.auth.roles = {}],
     [Proper EXCEPT !.maxRows = 0], [Proper EXCEPT !.referencePrefix = "malformed"],
     [Proper EXCEPT !.emailVerification.maxSends["global"] = 0]}

MCOfficer == [presented |-> TRUE, decodable |-> TRUE, signed |-> TRUE, issuer |-> TRUE,
              audience |-> TRUE, fresh |-> TRUE, scope |-> TRUE, roles |-> {"case_officer"}]

\* The token of somebody with another role, which the mocked service takes.
MCViewer == [MCOfficer EXCEPT !.roles = {"viewer"}]

\* An officer's token, and the ones that lack one thing.
MCBearer ==
    {MCViewer, [MCOfficer EXCEPT !.presented = FALSE],
     [MCOfficer EXCEPT !.decodable = FALSE], [MCOfficer EXCEPT !.signed = FALSE],
     [MCOfficer EXCEPT !.issuer = FALSE], [MCOfficer EXCEPT !.audience = FALSE],
     [MCOfficer EXCEPT !.fresh = FALSE], [MCOfficer EXCEPT !.scope = FALSE], MCOfficer}

\* Whoami with every token, an officer's requests, good and bad, and a viewer's.
MCRequest ==
    LET search(term, page, size) ==
            [token |-> MCOfficer, kind |-> "search", term |-> term, page |-> page, size |-> size]
        export(term, reference) ==
            [token |-> MCOfficer, kind |-> "export", term |-> term, reference |-> reference]
        delete(reference, version) ==
            [token |-> MCOfficer, kind |-> "delete", reference |-> reference,
             version |-> version]
        metrics(token, kind, from, to) ==
            [token |-> token, kind |-> kind, from |-> from, to |-> to]
    IN  {[kind |-> "whoami", token |-> t] : t \in MCBearer}
        \cup {search("farm", 1, 1), search("farm", 2, 1), search("farm", 1, 2),
              search("farm", 1, 3), search("farm", MaxPage + 1, 1), search("everything", 1, 1)}
        \cup {export("everything", None), export("barn", None), export(None, 1),
              export(None, 4), export(None, None)}
        \cup {delete(1, 1), delete(2, 0), delete(2, 1), delete(4, 1)}
        \cup {metrics(MCOfficer, "journeys", NoBound, NoBound),
              metrics(MCViewer, "journeys", 1, 1),
              metrics(MCOfficer, "notEligible", NoBound, 1)}

Symmetry == Permutations(Call)

MCMatches == ("everything" :> Session @@ "farm" :> Session @@ "barn" :> {2})

\* An open journey, a registration from before versions and dates, and a journey that
\* ended otherwise; or two registrations of one day, and a journey about to begin.
MCInitialWorlds ==
    LET d(start, state, end, version) ==
            [start |-> start, state |-> state, end |-> end, version |-> version, deleted |-> FALSE]
    IN  {<<d(0, "open", Undated, None), d(Undated, "registered", Undated, None),
           d(0, "not eligible", 0, None)>>,
         <<d(0, "registered", 0, 1), d(0, "registered", 0, 1),
           d(Undated, "none", Undated, None)>>}
=============================================================================
