SPECIFICATION FairSpec
CONSTANTS
    k1 = k1
    k2 = k2
    s1 = s1
    s2 = s2
    text = text
    Empty = Empty
    Conns <- OneConn
    Secrets <- TwoSecrets
    Texts <- SomeTexts
    MaxCopies = 1
PROPERTIES
    WipesOnlyOwnValue
