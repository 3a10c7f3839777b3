--------------------------- MODULE RegistrationForm ---------------------------
(***************************************************************************)
(* The answers of the registration form as POST /register accepts them     *)
(* (routes/registration/registration.js), and the ones scripts/seed.js     *)
(* makes up.  A text is what the schema tells apart: left out, blank once  *)
(* trimmed, well formed, too long or malformed.  Member schemes, which     *)
(* nothing depends on, are counted; an optional quantity is a set of one.  *)
(***************************************************************************)
EXTENDS Integers, Sequences, FiniteSets

BusinessActivities == {"manufacture", "market", "seller-professional",
                       "seller-amateur", "use-professional"}
AddressActivities == {"use", "store", "records"}
ProfessionalSectors == {"agriculture-horticulture", "amenity", "forestry"}
QuantityTypes == {"area", "amount"}

MaxMemberSchemes == 50
MaxAdditionalAddresses == 20

Absent == "absent"
Text == {Absent, "blank", "fine", "long", "malformed"}

\* What the driver stores for undefined, which no form can have.
Null == "null"

\* A trimmed string with at least one character, and no more than its limit.
RequiredText(t) == t = "fine"

\* A trimmed string that may be empty or left out.
OptionalText(t) == t \in {"fine", "blank", Absent}

\* An array of distinct ticked options, none of them foreign.
Ticked(options, chosen) == chosen # {} /\ chosen \subseteq options

AddressValid(a) ==
    /\ RequiredText(a.line1) /\ RequiredText(a.town) /\ RequiredText(a.postcode)
    /\ OptionalText(a.line2) /\ OptionalText(a.county)

ContactValid(c) ==
    RequiredText(c.name) /\ RequiredText(c.telephone) /\ RequiredText(c.email)

AdditionalAddressValid(x) ==
    /\ AddressValid(x.address)
    /\ ContactValid(x.contact)
    /\ Ticked(AddressActivities, x.activity)

\* Only sellers to amateurs may leave out who their main customer is, at any length.
MainCustomerValid(f) ==
    \/ f.mainCustomer \in {"fine", "long"}
    \/ f.mainCustomer = Absent /\ "seller-amateur" \in f.businessActivities

\* Whoever uses pesticides says how much; an amount is more than zero, as a
\* number or as text that reads as one.
QuantityValid(f) ==
    /\ "use" \in f.addressActivities => f.quantity # {}
    /\ \A q \in f.quantity : q.type \in QuantityTypes /\ q.amount > 0

\* The ticked sectors, or one description in the applicant's own words.
SectorsValid(f) ==
    f.sectors \subseteq ProfessionalSectors \/ Cardinality(f.sectors) = 1

\* The payload's schema: nothing is stored of a form that fails any of it.
FormValid(f) ==
    /\ Ticked(BusinessActivities, f.businessActivities)
    /\ MainCustomerValid(f)
    /\ RequiredText(f.businessName)
    /\ AddressValid(f.address)
    /\ ContactValid(f.primaryContact)
    /\ Ticked(AddressActivities, f.addressActivities)
    /\ QuantityValid(f)
    /\ SectorsValid(f)
    /\ f.memberSchemes \in 0..MaxMemberSchemes
    /\ Len(f.additionalAddresses) <= MaxAdditionalAddresses
    /\ \A i \in DOMAIN f.additionalAddresses :
            AdditionalAddressValid(f.additionalAddresses[i])

FineAddress == [line1 |-> "fine", line2 |-> Absent, town |-> "fine",
                county |-> Absent, postcode |-> "fine"]
FineContact == [name |-> "fine", telephone |-> "fine", email |-> "fine"]

\* Filled-in forms, around which the schema's conditions differ.
SomeForms ==
    {[businessActivities |-> b, mainCustomer |-> m, businessName |-> n,
      address |-> [FineAddress EXCEPT !.postcode = p],
      primaryContact |-> FineContact, addressActivities |-> a, quantity |-> q,
      sectors |-> s, memberSchemes |-> k, additionalAddresses |-> x] :
        b \in {{}, {"market"}, {"market", "seller-amateur"}},
        m \in {Absent, "fine"}, n \in {"fine", "long"}, p \in {"fine", "malformed"},
        a \in {{"use"}, {"store", "records"}},
        q \in {{}, {[type |-> "area", amount |-> 0]}, {[type |-> "area", amount |-> 1]}},
        s \in {{}, {"own words"}, {"own words", "amenity"}}, k \in {0, MaxMemberSchemes + 1},
        x \in {<<>>, <<[address |-> FineAddress, contact |-> FineContact, activity |-> {}]>>}}

-----------------------------------------------------------------------------
(* The records of scripts/seed.js                                          *)

\* What goes wrong if the count is drawn from zero.
PickAnySubset(options) == SUBSET options

\* pickSubset: at least one of the options, at most all.
PickSubset(options) == (SUBSET options) \ {{}}

\* An address that leaves line 2 and the county undefined, or fills them in.
SeedAddress(optional) == [FineAddress EXCEPT !.line2 = optional, !.county = optional]

SeedAdditionalAddress(y) ==
    [address |-> FineAddress, contact |-> FineContact, activity |-> y]

\* Maybe some sectors.
SeedSectors == {{}} \cup PickSubset(ProfessionalSectors)

\* One more address, or none.
SeedAdditionalAddresses ==
    {<<>>} \cup {<<SeedAdditionalAddress(y)>> : y \in PickSubset(AddressActivities)}

\* buildRecord
SeedForm(b, o, a, q, s, k, x) ==
    [businessActivities |-> b, mainCustomer |-> "fine", businessName |-> "fine",
     address |-> SeedAddress(o), primaryContact |-> FineContact,
     addressActivities |-> a, quantity |-> {[type |-> q, amount |-> 1]},
     sectors |-> s, memberSchemes |-> k, additionalAddresses |-> x]

\* Whatever the dice say about activities, sectors and schemes.
SeedForms ==
    {SeedForm(b, o, a, q, s, k, x) :
        b \in PickSubset(BusinessActivities), o \in {Null, "fine"},
        a \in PickSubset(AddressActivities), q \in QuantityTypes,
        s \in SeedSectors, k \in {0, 4},
        x \in SeedAdditionalAddresses}

\* A stored null says no more than an answer that was left out.
AsRead(t) == IF t = Null THEN Absent ELSE t

ReadBack(f) ==
    LET a == f.address IN
    [f EXCEPT !.address = [a EXCEPT !.line2 = AsRead(a.line2), !.county = AsRead(a.county)]]
=============================================================================
