SPECIFICATION BuildSpec
CONSTANT MaxBuilds = 3
INVARIANTS
    PublishedIsOneBuild
    LinksNameTheImage
    BootsNoOlderImage
    PagesShowNumbers
CHECK_DEADLOCK FALSE
