SPECIFICATION Spec
CONSTANTS
    Question = {1, 2, 3, 4, 5, 6, 7}
    TypeOf <- MCTypeOf
    CategoryOf <- MCCategoryOf
    ImagesOf <- MCImagesOf
    Catalog <- MCCatalog
    TaxonOf <- MCTaxonOf
    Taxa <- MCTaxa
    Types <- MCTypes
    Wanted <- MCWanted
    ReservePercent = 40
    Weights <- MCWeights
    MinPositive = 2
    MaxPositive = 2
    ScanLimit = 2
    Official = {"b6", "c4"}
    SamplePercent = 90
    ValPercent = 30
    MaxDamaged = 1
    MaxUnproven = 1
INVARIANTS CorpusAsPromised NoInternalError
