CONSTANTS
    c1 = c1
    c2 = c2
    c3 = c3
    ann = ann
    bea = bea
    Ann = Ann
    Caller = {c1, c2, c3}
    Spelling = {ann, bea, Ann}
    Email = {ann, bea}
    Lower <- Normal
    Tasks <- Asked
SPECIFICATION FairSpec
INVARIANTS
    EmailUnique
PROPERTIES
    SignedUpIsFound
    KeepsAccounts
    EverySignupAnswered
