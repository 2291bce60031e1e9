\* Runs over two storages that change places, stopped and killed anywhere.
SPECIFICATION Spec
CONSTANTS
    here = here
    there = there
    first = first
    second = second
    moved = moved
    linked = linked
    N = 2
    URLs = {here, there}
    Collections = {first, second, moved, linked}
    Foreign = {linked}
    OfName <- MCOfName
    OfURL <- MCOfURL
    None = none
    MaxConfs = 2
    MaxKills = 2
INVARIANT CacheTrue
PROPERTY FossilsKept
