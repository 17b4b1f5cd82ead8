SPECIFICATION FairSpec
CONSTANTS
    Tags <- MCTags
    Passed = Passed
    None = None
    Torn = Torn
INVARIANTS BannerIsNewer BannerSurvivesRestart
PROPERTIES CacheStaysWhole BannerSettles
