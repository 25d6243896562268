SPECIFICATION FileSpec
CONSTANTS
    None = None
    food = food
    fun = fun
    eur = eur
    usd = usd
    i1 = i1
    old = old
    new = new
    a = a
    x = x
    label = label
    m11 = m11
    m12 = m12
    m13 = m13
    c1 = c1
    c2 = c2
    c3 = c3
    c4 = c4
    Categories = {old, new, a, x, label, m11, m12, m13, c1, c2, c3, c4}
    Names = {food, fun}
    Importers = {i1}
    Payloads <- ImportedPayloads
    Uuids = {a, x}
    Minted <- MintedIds
    Existing = old
    Created = {new}
    MaxEdits = 1
    Readers = {r1, r2}
    Files <- ReadFiles
    Codes = {eur, usd}
    Default = eur
    Placeholders <- PlaceholderIds
    MaxTransactions = 2
INVARIANTS
    TwoLevelsOneRole
PROPERTIES
    ImportsMeet
    RowsArriveAsRead
CHECK_DEADLOCK FALSE
