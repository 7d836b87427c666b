\* Unions, enums and reports, each in behaviours of its own.
SPECIFICATION ScopedSpec
CONSTANTS
  a = a b = b k = k c = c m = m Content = Content None = None
  Word = {a, b}
  Attribute = {k, c}
  Child = {m}
  MaxArms = 3
  Pool <- MCPool
  Value <- MCValue
  dom = dom dom2 = dom2 list = list plain = plain id = id field = field
  i1 = i1 i2 = i2 x = x y = y waVersion = waVersion key1 = key1 key2 = key2
  Key = {key1, key2}
  VariantList <- MCVariantLists
  MaxSites = 3
  Scalar = {i1, i2, x, y}
  Absent = Absent
  Stamps = {waVersion}
  IdentityKeys <- Identified
  MaxDepth = 4
  Label = {"upstream-change"}
  Verdict = {"upstream-change", "rename"}
  OldTrees <- Published
  NewTrees <- Trees
  MaxReviews = 2
INVARIANTS DecodesAsSource EveryArmIsReachable LeafReadsAgree CatalogueResolves DeltaIsExact ReviewsStayWithTheirChange
CHECK_DEADLOCK FALSE
