CONSTANTS
    alice = alice
    bob = bob
    Spelling = {1, 2, 3, 4}
    BookOf <- Owner
    Lower <- Canonical
    Price <- Prices
    Requests <- Asking
SPECIFICATION Spec
INVARIANTS
    ExactTotal
    ReplaysSamePurchase
    EventAcceptable
    NotAvailableIsTrue
